---- MODULE Spec2Model ----
(***************************************************************************)
(* Iris: a replicated key-value registry with live change notification.   *)
(* The model covers the store's state machine (store/fsm.go), the store   *)
(* facade (store/store.go) and the session / subscription / publish       *)
(* engine of the RPC server (transport/server.go).                        *)
(*                                                                         *)
(* Every piece of per-process state is a function of the node, so that a  *)
(* specification can run one server or several replicas of the store.     *)
(***************************************************************************)
EXTENDS Integers, Sequences, FiniteSets, TLC

\* ------------------------------------------------------------------ bounds

\* Number of commands the replicated log may hold.
MaxLog == 3

\* Number of Connect calls and of Listen calls a server receives when only
\* its sessions are followed.
MaxConnect == 2

MaxListen == 2

\* Number of writes the clients of a publishing server make, and number of
\* Connect calls and of Listen calls it receives.
MaxWrites == 2

MaxClients == 1

\* Number of snapshots taken, and number of Store reads a node serves, when
\* reads run next to Apply, Snapshot and Restore.
MaxSnapshots == 1

MaxReads == 1
\* Calls of the Server's and the Store's API in one behaviour.
MaxCalls == 2
MaxJoins == 3
MaxHandlers == 2
MaxHops == 3

\* ------------------------------------------------------------- input sets

Nodes == {"n1", "n2", "n3"}

\* The nodes whose store was opened (Store.Open set s.raft); the store of the
\* other node was only constructed by NewStore.
Opened == {"n1", "n2"}

\* The addresses a node may be asked to join.
Addresses == {"addr2", "addr3"}

\* Source names.  "AA" is also a session identifier: a source may carry any
\* non-empty name, a session identifier included.
Sources == {"colors", "AA"}

Keys == {"primary", "secondary"}

\* Byte strings.  A nil []byte is the byte string of length zero.
NilValue == ""

Values == {NilValue, "red"}

\* Session identifiers: the values of fmt.Sprintf("%X", b) for the random b.
SessionIDs == {"AA", "BB"}

\* --------------------------------------------------------------- Go maps

EmptyMap == <<>>

MapPut(m, k, v) == [x \in (DOMAIN m) \cup {k} |-> IF x = k THEN v ELSE m[x]]

MapDel(m, k) == [x \in (DOMAIN m) \ {k} |-> m[x]]

\* All orders in which a range loop may visit the elements of a set.
RECURSIVE Orders(_)
Orders(S) ==
  IF S = {} THEN {<<>>}
  ELSE UNION {{<<x>> \o t : t \in Orders(S \ {x})} : x \in S}

\* -------------------------------------------------------------- commands

operationSet == "set"

operationDeleteKey == "deletekey"

operationDeleteSource == "deleteSource"

command(op, source, key, value) ==
  [op |-> op, source |-> source, key |-> key, value |-> value]

\* json.Marshal(c) for a command: an object with the fields' json names;
\* encoding/json writes a []byte as a base64 string.
marshal(c) ==
  [operation |-> c.op, source |-> c.source, key |-> c.key,
   value |-> <<"base64", c.value>>]

\* json.Unmarshal(l.Data, &c) for the bytes of a log entry.
unmarshal(data) ==
  command(data.operation, data.source, data.key, data.value[2])

\* Bytes of a log entry that json.Unmarshal cannot decode into a command.
Undecodable == [raw |-> "not json"]

\* `err := json.Unmarshal(l.Data, &c); err != nil` in fsm.Apply.
unmarshalError(data) == "operation" \notin DOMAIN data

\* The operations applyCommand has a case for; every other one takes the
\* default branch.
Operations == {operationSet, operationDeleteKey, operationDeleteSource}

\* ------------------------------------------------------------------ state

VARIABLES
  leader,          \* the node whose raft state is Leader
  log,             \* the committed log entries (their Data), in log order
  applied,         \* per node: index of the last log entry its FSM applied
  storage,         \* per node: Store.storage, source -> key -> value
  pubs,            \* per node: the publish goroutines, in the order started
  initialized,     \* per node: Server.initialized
  sessions,        \* per node: Server.sessions, identifier -> Listener
  sourceSubs,      \* per node: Server.sourceSubs, source -> set of sessions
  keySubs,         \* per node: Server.keySubs, source -> key -> set of sessions
  sessionsMutex,   \* per node: holder of Server.sessionsMutex
  sourceSubsMutex, \* per node: holder of Server.sourceSubsMutex
  keySubsMutex,    \* per node: holder of Server.keySubsMutex
  connects,        \* per node: the Connect calls, in order of arrival
  listens,         \* per node: the Listen calls, in order of arrival
  mu,              \* per node: holder of Store.mu
  snapshots,       \* the snapshots taken, in order
  reads,           \* per node: the calls of GetSources, GetKeys and Get
  peers,           \* the peer set of the cluster
  proxy,           \* per node: whether Server.Proxy is configured
  calls,           \* the client requests, in order of arrival
  unsubAt,         \* per node: what the unsubscribed sessions had seen
  client,          \* the api.Client of session AA, connected to n1
  boot             \* the first requests of n1's Server, statement by statement

storeVars == <<leader, log, applied, storage, mu, snapshots, reads, peers>>

serverVars == <<initialized, sessions, sourceSubs, keySubs, sessionsMutex,
                sourceSubsMutex, keySubsMutex, connects, listens, proxy>>

clientVars == <<calls, unsubAt, client, boot>>

vars == <<leader, log, applied, storage, pubs, initialized, sessions,
          sourceSubs, keySubs, sessionsMutex, sourceSubsMutex, keySubsMutex,
          connects, listens, mu, snapshots, reads, peers, proxy, calls,
          unsubAt, client, boot>>

\* A mutex nobody holds; otherwise its holder is <<"publish", g>> for
\* publish goroutine g or <<"connect", c>> for Connect call c.
Free == <<"free", 0>>

\* Session.Listener of a session created by Connect.
NoListener == 0

\* ------------------------------------------------------------------- fsm

\* A set that always starts from a fresh inner map.
setFreshMap(st, source, key, value) ==
  MapPut(st, source, MapPut(EmptyMap, key, value))

\* fsm.set: the storage after storing value under (source, key).
set(st, source, key, value) ==
  LET m == IF source \in DOMAIN st THEN st[source] ELSE EmptyMap
  IN  MapPut(st, source, MapPut(m, key, value))

\* A deleteSource that collects the keys after removing the entry.
deleteSourceKeysAfterDelete(st, source) ==
  LET after == IF source \in DOMAIN st THEN MapDel(st, source) ELSE st
  IN  IF source \in DOMAIN after THEN DOMAIN after[source] ELSE {}

\* fsm.deleteSource: the keys it returns.
deleteSourceKeys(st, source) ==
  IF source \in DOMAIN st THEN DOMAIN st[source] ELSE {}

\* fsm.deleteSource: the storage it leaves.
deleteSource(st, source) ==
  IF source \in DOMAIN st THEN MapDel(st, source) ELSE st

\* A deleteKey that sets found as soon as the source exists.
deleteKeyFoundForSource(st, source, key) ==
  source \in DOMAIN st

\* fsm.deleteKey: the value it returns.
deleteKeyFound(st, source, key) ==
  source \in DOMAIN st /\ key \in DOMAIN st[source]

\* A deleteKey that leaves the emptied source in place.
deleteKeyKeepsEmptySource(st, source, key) ==
  IF source \in DOMAIN st
  THEN MapPut(st, source, MapDel(st[source], key))
  ELSE st

\* fsm.deleteKey: the storage it leaves.
deleteKey(st, source, key) ==
  IF source \in DOMAIN st
  THEN LET m == MapDel(st[source], key)
       IN  IF Cardinality(DOMAIN m) = 0
           THEN MapDel(st, source)
           ELSE MapPut(st, source, m)
  ELSE st

\* fsm.applyCommand: the storage after the command.
applyStorage(st, c) ==
  CASE c.op = operationSet -> set(st, c.source, c.key, c.value)
    [] c.op = operationDeleteSource -> deleteSource(st, c.source)
    [] c.op = operationDeleteKey -> deleteKey(st, c.source, c.key)
    [] OTHER -> st

\* fsm.applySet / appleDeleteSource / appleDeleteKey: the possible sequences
\* of (key, value) pairs for which the command starts a publishCallback
\* goroutine.  deleteSource collects the keys in map iteration order, which
\* Go leaves unspecified.
applyPublishes(st, c) ==
  CASE c.op = operationSet -> {<< <<c.key, c.value>> >>}
    [] c.op = operationDeleteSource ->
         {[i \in DOMAIN o |-> <<o[i], NilValue>>] :
            o \in Orders(deleteSourceKeys(st, c.source))}
    [] c.op = operationDeleteKey ->
         IF deleteKeyFound(st, c.source, c.key)
         THEN {<< <<c.key, NilValue>> >>} ELSE {<<>>}
    [] OTHER -> {<<>>}

\* A goroutine started by `go f.publishCallback(source, key, value)` while
\* log entry idx was applied.  idx is not program state: it names the log
\* entry the goroutine belongs to.
goroutine(idx, source, key, value) ==
  [idx |-> idx, source |-> source, key |-> key, value |-> value,
   pc |-> "callback", todo |-> <<>>, errs |-> 0]

\* An Apply that does not wait for f.mu.
FsmApplyUnlocked(n) ==
  /\ n \in Opened
  /\ applied[n] < Len(log)
  /\ LET i == applied[n] + 1
         c == unmarshal(log[i])
     IN  /\ storage' = [storage EXCEPT ![n] = applyStorage(@, c)]
         /\ applied' = [applied EXCEPT ![n] = i]
         /\ \E ps \in applyPublishes(storage[n], c) :
              pubs' = [pubs EXCEPT ![n] = @ \o
                        [j \in DOMAIN ps |->
                           goroutine(i, c.source, ps[j][1], ps[j][2])]]
  /\ UNCHANGED <<leader, log>>
  /\ UNCHANGED serverVars
  /\ UNCHANGED <<mu, snapshots, reads, peers, calls, unsubAt, client, boot>>

\* An Apply that changes storage on the leader only.
FsmApplyOnLeaderOnly(n) ==
  /\ n \in Opened
  /\ mu[n] = Free
  /\ applied[n] < Len(log)
  /\ LET i == applied[n] + 1
         c == unmarshal(log[i])
     IN  /\ storage' = [storage EXCEPT ![n] =
                          IF leader = n THEN applyStorage(@, c) ELSE @]
         /\ applied' = [applied EXCEPT ![n] = i]
         /\ \E ps \in applyPublishes(storage[n], c) :
              pubs' = [pubs EXCEPT ![n] = @ \o
                        [j \in DOMAIN ps |->
                           goroutine(i, c.source, ps[j][1], ps[j][2])]]
  /\ UNCHANGED <<leader, log>>
  /\ UNCHANGED serverVars
  /\ UNCHANGED <<mu, snapshots, reads, peers, calls, unsubAt, client, boot>>

\* An Apply that starts the publish goroutines on the leader only.
FsmApplyPublishOnLeader(n) ==
  /\ n \in Opened
  /\ mu[n] = Free
  /\ applied[n] < Len(log)
  /\ LET i == applied[n] + 1
         c == unmarshal(log[i])
     IN  /\ storage' = [storage EXCEPT ![n] = applyStorage(@, c)]
         /\ applied' = [applied EXCEPT ![n] = i]
         /\ \E ps \in applyPublishes(storage[n], c) :
              pubs' = [pubs EXCEPT ![n] =
                        IF leader = n
                        THEN @ \o [j \in DOMAIN ps |->
                                     goroutine(i, c.source, ps[j][1], ps[j][2])]
                        ELSE @]
  /\ UNCHANGED <<leader, log>>
  /\ UNCHANGED serverVars
  /\ UNCHANGED <<mu, snapshots, reads, peers, calls, unsubAt, client, boot>>

\* An Apply that does not return for an entry it cannot decode or whose
\* operation it does not know.
FsmApplyStopsAtUnknown(n) ==
  /\ n \in Opened
  /\ mu[n] = Free
  /\ applied[n] < Len(log)
  /\ ~unmarshalError(log[applied[n] + 1])
  /\ unmarshal(log[applied[n] + 1]).op \in Operations
  /\ LET i == applied[n] + 1
         c == unmarshal(log[i])
     IN  /\ storage' = [storage EXCEPT ![n] = applyStorage(@, c)]
         /\ applied' = [applied EXCEPT ![n] = i]
         /\ \E ps \in applyPublishes(storage[n], c) :
              pubs' = [pubs EXCEPT ![n] = @ \o
                        [j \in DOMAIN ps |->
                           goroutine(i, c.source, ps[j][1], ps[j][2])]]
  /\ UNCHANGED <<leader, log>>
  /\ UNCHANGED serverVars
  /\ UNCHANGED <<mu, snapshots, reads, peers, calls, unsubAt, client, boot>>

\* An Apply that publishes synchronously: it returns when the publishes it
\* started are over, so the next entry waits for them.
FsmApplyWaitsForPublish(n) ==
  /\ n \in Opened
  /\ mu[n] = Free
  /\ applied[n] < Len(log)
  /\ \A g \in DOMAIN pubs[n] : pubs[n][g].pc = "done"
  /\ LET i == applied[n] + 1
         c == unmarshal(log[i])
     IN  /\ storage' = [storage EXCEPT ![n] = applyStorage(@, c)]
         /\ applied' = [applied EXCEPT ![n] = i]
         /\ \E ps \in applyPublishes(storage[n], c) :
              pubs' = [pubs EXCEPT ![n] = @ \o
                        [j \in DOMAIN ps |->
                           goroutine(i, c.source, ps[j][1], ps[j][2])]]
  /\ UNCHANGED <<leader, log>>
  /\ UNCHANGED serverVars
  /\ UNCHANGED <<mu, snapshots, reads, peers, calls, unsubAt, client, boot>>

\* An Apply that starts the publish goroutines of an entry first and changes
\* the storage in a later step.
FsmApplyPublishesFirst(n) ==
  /\ n \in Opened
  /\ mu[n] = Free
  /\ applied[n] < Len(log)
  /\ LET i == applied[n] + 1
         c == unmarshal(log[i])
     IN  \/ /\ \A g \in DOMAIN pubs[n] : pubs[n][g].idx # i
            /\ \E ps \in applyPublishes(storage[n], c) :
                 /\ ps # <<>>
                 /\ pubs' = [pubs EXCEPT ![n] = @ \o
                              [j \in DOMAIN ps |->
                                 goroutine(i, c.source, ps[j][1], ps[j][2])]]
            /\ UNCHANGED <<storage, applied>>
         \/ /\ \/ \E g \in DOMAIN pubs[n] : pubs[n][g].idx = i
               \/ applyPublishes(storage[n], c) = {<<>>}
            /\ storage' = [storage EXCEPT ![n] = applyStorage(@, c)]
            /\ applied' = [applied EXCEPT ![n] = i]
            /\ UNCHANGED pubs
  /\ UNCHANGED <<leader, log>>
  /\ UNCHANGED serverVars
  /\ UNCHANGED <<mu, snapshots, reads, peers, calls, unsubAt, client, boot>>

\* fsm.Apply on node n: apply the next committed entry and start one
\* goroutine per publish.  set, deleteSource and deleteKey hold f.mu from
\* their first statement to their last, so the entry's change to storage is
\* one step that waits for the mutex.  An entry that json.Unmarshal cannot
\* decode, or whose operation has no case in applyCommand, is logged and
\* Apply returns nil without taking f.mu.
FsmApply(n) ==
  /\ n \in Opened
  /\ applied[n] < Len(log)
  /\ LET i == applied[n] + 1
     IN  IF unmarshalError(log[i]) \/ unmarshal(log[i]).op \notin Operations
         THEN /\ applied' = [applied EXCEPT ![n] = i]
              /\ UNCHANGED <<storage, pubs>>
         ELSE LET c == unmarshal(log[i])
              IN  /\ mu[n] = Free
                  /\ storage' = [storage EXCEPT ![n] = applyStorage(@, c)]
                  /\ applied' = [applied EXCEPT ![n] = i]
                  /\ \E ps \in applyPublishes(storage[n], c) :
                       pubs' = [pubs EXCEPT ![n] = @ \o
                                 [j \in DOMAIN ps |->
                                    goroutine(i, c.source, ps[j][1],
                                              ps[j][2])]]
  /\ UNCHANGED <<leader, log>>
  /\ UNCHANGED serverVars
  /\ UNCHANGED <<mu, snapshots, reads, peers, calls, unsubAt, client, boot>>

\* A clone that allocates the inner maps and copies nothing into them.
cloneSourcesOnly(o) == [s \in DOMAIN o |-> EmptyMap]

\* clone: a new outer map with a new inner map per source, entries copied.
clone(o) == [s \in DOMAIN o |-> [k \in DOMAIN o[s] |-> o[s][k]]]

\* json.Marshal(f.store) in fsmSnapshot.Persist: an object per source with a
\* base64 string per key.
persist(store) ==
  [s \in DOMAIN store |->
     [k \in DOMAIN store[s] |-> <<"base64", store[s][k]>>]]

\* json.NewDecoder(rc).Decode(&s) in fsm.Restore: the storage image read
\* back from the persisted bytes.
restore(data) ==
  [s \in DOMAIN data |-> [k \in DOMAIN data[s] |-> data[s][k][2]]]

\* fsm.Snapshot on node n: under f.mu, a snapshot handle holding a clone of
\* storage.  index is the last applied log index, which raft records with
\* the snapshot.  origin, restoredOn and late are not program state: the
\* storage the snapshot was taken of, the nodes that restored from it and
\* whether the node had applied a later entry when Persist ran.
Snapshot(n) ==
  /\ n \in Opened
  /\ mu[n] = Free
  /\ snapshots' = Append(snapshots,
                     [node |-> n, index |-> applied[n],
                      store |-> clone(storage[n]), persisted |-> FALSE,
                      data |-> EmptyMap, origin |-> storage[n],
                      restoredOn |-> {}, late |-> FALSE])
  /\ UNCHANGED <<leader, log, applied, storage, pubs, mu, reads, peers>>
  /\ UNCHANGED serverVars
  /\ UNCHANGED clientVars

\* A snapshot whose store is the FSM's storage map itself.
snapshotStoreLive(sn) == storage[sn.node]

\* f.store as fsmSnapshot.Persist reads it: the maps clone allocated, which
\* nothing else refers to, so they are as Snapshot left them.
snapshotStore(sn) == sn.store

\* fsmSnapshot.Persist: the clone is marshalled and written to the sink.
Persist(i) ==
  /\ i \in DOMAIN snapshots
  /\ ~snapshots[i].persisted
  /\ snapshots' = [snapshots EXCEPT
                     ![i].persisted = TRUE,
                     ![i].data = persist(snapshotStore(snapshots[i])),
                     ![i].late =
                       applied[snapshots[i].node] > snapshots[i].index]
  /\ UNCHANGED <<leader, log, applied, storage, pubs, mu, reads, peers>>
  /\ UNCHANGED serverVars
  /\ UNCHANGED clientVars

\* A range loop that evaluates its range expression again at every
\* iteration.
rangeMapEvaluatedEachTime(n, rd) ==
  IF rd.op = "GetSources" THEN storage[n]
  ELSE IF rd.source \in DOMAIN storage[n] THEN storage[n][rd.source]
  ELSE EmptyMap

\* The map a range loop of read rd visits: the map object the range
\* expression gave when the loop started.  While that object is the node's
\* storage (or an inner map of it) the loop sees it as it is now; after a
\* Restore replaced f.storage the loop goes on over the object it holds.
rangeMap(n, rd) ==
  IF ~rd.live THEN rd.frozen
  ELSE IF rd.op = "GetSources" THEN storage[n]
  ELSE IF rd.source \in DOMAIN storage[n] THEN storage[n][rd.source]
  ELSE EmptyMap

\* fsm.Restore on node n from persisted snapshot i, which raft installs when
\* it is ahead of the node: `f.storage = s` with no lock taken and nothing
\* published.  A range loop in progress keeps the map object it started on.
Restore(n, i) ==
  /\ n \in Opened
  /\ i \in DOMAIN snapshots
  /\ snapshots[i].persisted
  /\ snapshots[i].index > applied[n]
  /\ storage' = [storage EXCEPT ![n] = restore(snapshots[i].data)]
  /\ applied' = [applied EXCEPT ![n] = snapshots[i].index]
  /\ snapshots' = [snapshots EXCEPT ![i].restoredOn = @ \cup {n}]
  /\ reads' = [reads EXCEPT ![n] =
                 [r \in DOMAIN reads[n] |->
                    IF reads[n][r].pc = "range" /\ reads[n][r].live
                    THEN [reads[n][r] EXCEPT
                            !.live = FALSE,
                            !.frozen = rangeMap(n, reads[n][r])]
                    ELSE reads[n][r]]]
  /\ UNCHANGED <<leader, log, pubs, mu, peers>>
  /\ UNCHANGED serverVars
  /\ UNCHANGED clientVars

\* raft commits an entry that no Store method of this build encoded (the
\* entry of another build, or damaged bytes) and hands it to fsm.Apply.
RaftCommitForeign(data) ==
  /\ Len(log) < MaxLog
  /\ log' = Append(log, data)
  /\ UNCHANGED <<leader, applied, storage, pubs, mu, snapshots, reads, peers>>
  /\ UNCHANGED serverVars
  /\ UNCHANGED clientVars

\* ----------------------------------------------------------------- store

\* Store.IsLeader: false when s.raft is nil.
IsLeader(n) == n \in Opened /\ leader = n

\* Store.GetSources: what it returns when its steps run together.
GetSources(n) == DOMAIN storage[n]

\* Store.GetKeys: what it returns when its steps run together.
GetKeys(n, source) ==
  IF source \in DOMAIN storage[n] THEN DOMAIN storage[n][source] ELSE {}

\* Store.Get: what it returns when its steps run together.
Get(n, source, key) ==
  IF source \in DOMAIN storage[n] /\ key \in DOMAIN storage[n][source]
  THEN storage[n][source][key]
  ELSE NilValue

\* A call of Store.GetSources, GetKeys or Get in progress.  out collects
\* what a range loop appended to the response, seen what it has visited.
read(op, source, key) ==
  [op |-> op, source |-> source, key |-> key, pc |-> "range", live |-> TRUE,
   frozen |-> EmptyMap, seen |-> {}, out |-> {}, value |-> NilValue]

\* Store.GetSources up to its range loop: s.mu.Lock() and the evaluation of
\* the range expression s.storage.
GetSourcesLock(n) ==
  /\ mu[n] = Free
  /\ mu' = [mu EXCEPT ![n] = <<"read", Len(reads[n]) + 1>>]
  /\ reads' = [reads EXCEPT ![n] = Append(@, read("GetSources", "", ""))]
  /\ UNCHANGED <<leader, log, applied, storage, pubs, snapshots, peers>>
  /\ UNCHANGED serverVars
  /\ UNCHANGED clientVars

\* Store.GetKeys up to its range loop: s.mu.Lock() and the evaluation of the
\* range expression s.storage[source].
GetKeysLock(n, source) ==
  /\ mu[n] = Free
  /\ mu' = [mu EXCEPT ![n] = <<"read", Len(reads[n]) + 1>>]
  /\ reads' = [reads EXCEPT ![n] = Append(@, read("GetKeys", source, ""))]
  /\ UNCHANGED <<leader, log, applied, storage, pubs, snapshots, peers>>
  /\ UNCHANGED serverVars
  /\ UNCHANGED clientVars

\* One iteration of the range loop of GetSources or GetKeys: the next entry
\* is appended to the response.
RangeNext(n, r) ==
  /\ r \in DOMAIN reads[n]
  /\ reads[n][r].pc = "range"
  /\ \E x \in (DOMAIN rangeMap(n, reads[n][r])) \ reads[n][r].seen :
       reads' = [reads EXCEPT ![n][r].seen = @ \cup {x},
                              ![n][r].out = @ \cup {x}]
  /\ UNCHANGED <<leader, log, applied, storage, pubs, mu, snapshots, peers>>
  /\ UNCHANGED serverVars
  /\ UNCHANGED clientVars

\* The range loop has visited every entry: the deferred s.mu.Unlock() runs
\* and the response is returned.
RangeEnd(n, r) ==
  /\ r \in DOMAIN reads[n]
  /\ reads[n][r].pc = "range"
  /\ (DOMAIN rangeMap(n, reads[n][r])) \ reads[n][r].seen = {}
  /\ reads' = [reads EXCEPT ![n][r].pc = "returned"]
  /\ mu' = [mu EXCEPT ![n] = Free]
  /\ UNCHANGED <<leader, log, applied, storage, pubs, snapshots, peers>>
  /\ UNCHANGED serverVars
  /\ UNCHANGED clientVars

\* Store.Get up to `if s.storage[source] == nil { return nil }`.
GetLock(n, source, key) ==
  /\ mu[n] = Free
  /\ IF source \in DOMAIN storage[n]
     THEN /\ mu' = [mu EXCEPT ![n] = <<"read", Len(reads[n]) + 1>>]
          /\ reads' = [reads EXCEPT ![n] =
                         Append(@, [read("Get", source, key) EXCEPT
                                      !.pc = "index"])]
     ELSE /\ UNCHANGED mu
          /\ reads' = [reads EXCEPT ![n] =
                         Append(@, [read("Get", source, key) EXCEPT
                                      !.pc = "returned"])]
  /\ UNCHANGED <<leader, log, applied, storage, pubs, snapshots, peers>>
  /\ UNCHANGED serverVars
  /\ UNCHANGED clientVars

\* Store.Get: `return s.storage[source][key]`, which reads s.storage again,
\* and the deferred s.mu.Unlock().
GetIndex(n, r) ==
  /\ r \in DOMAIN reads[n]
  /\ reads[n][r].pc = "index"
  /\ reads' = [reads EXCEPT ![n][r].pc = "returned",
                            ![n][r].value =
                              Get(n, reads[n][r].source, reads[n][r].key)]
  /\ mu' = [mu EXCEPT ![n] = Free]
  /\ UNCHANGED <<leader, log, applied, storage, pubs, snapshots, peers>>
  /\ UNCHANGED serverVars
  /\ UNCHANGED clientVars

\* The fields of a request; a field the request does not carry is empty.
request(session, source, key, value, address) ==
  [session |-> session, source |-> source, key |-> key, value |-> value,
   address |-> address]

\* The fields of a response; list holds what a stream of responses carried.
response(session, source, key, value, list) ==
  [session |-> session, source |-> source, key |-> key, value |-> value,
   list |-> list]

NoResponse == response("", "", "", NilValue, {})

\* A call of operation op on node n, of the Store (api "store") or of the
\* Server (api "rpc").  idx is the index of the log entry the call submitted,
\* lst the Listen stream a proxied call opened on the leader.  after is not
\* program state: it names the Server calls that had returned when this one
\* arrived.  raftErr is the error the future of s.raft.AddPeer gave a Join,
\* empty for nil.  to is the node whose address s.Leader() gave the proxy;
\* path lists, per forwarding, the node dialled and the Listen stream opened
\* on it.
call(api, n, op, req) ==
  [api |-> api, node |-> n, op |-> op, req |-> req, pc |-> "received",
   proxied |-> FALSE, idx |-> 0, err |-> FALSE, resp |-> NoResponse,
   lst |-> 0, after |-> {}, raftErr |-> "", to |-> "", path |-> <<>>]

\* json.Marshal(c) and s.raft.Apply(b, raftTimeout): the encoded command is
\* committed to the log.  The future's Error() returns once the leader's FSM
\* has applied the entry.
raftApply(n, c) ==
  /\ IsLeader(n)
  /\ Len(log) < MaxLog
  /\ log' = Append(log, marshal(c))
  /\ UNCHANGED <<leader, applied, storage, pubs, mu, snapshots, reads, peers>>

\* `if !s.IsLeader() { return errors.New(...) }` of Set, DeleteKey,
\* DeleteSource and Join.
notLeader(n, op, req) ==
  /\ ~IsLeader(n)
  /\ calls' = Append(calls, [call("store", n, op, req) EXCEPT
                               !.pc = "returned", !.err = TRUE])
  /\ UNCHANGED <<pubs, unsubAt, client, boot>>
  /\ UNCHANGED storeVars
  /\ UNCHANGED serverVars

\* The rest of Set, DeleteKey and DeleteSource: command c is submitted.
submit(n, op, req, c) ==
  /\ raftApply(n, c)
  /\ calls' = Append(calls, [call("store", n, op, req) EXCEPT
                               !.pc = "submitted", !.idx = Len(log) + 1])
  /\ UNCHANGED <<unsubAt, client, boot>>
  /\ UNCHANGED serverVars

\* A Set that submits the command whatever the raft state.
StoreSetUnchecked(n, source, key, value) ==
  /\ Len(log) < MaxLog
  /\ log' = Append(log, marshal(command(operationSet, source, key, value)))
  /\ calls' = Append(calls,
                [call("store", n, "Set", request("", source, key, value, ""))
                   EXCEPT !.pc = "submitted", !.idx = Len(log) + 1])
  /\ UNCHANGED <<leader, applied, storage, pubs, mu, snapshots, reads, peers,
                 unsubAt, client, boot>>
  /\ UNCHANGED serverVars

\* Store.Set
StoreSet(n, source, key, value) ==
  /\ n \in Nodes
  /\ \/ notLeader(n, "Set", request("", source, key, value, ""))
     \/ submit(n, "Set", request("", source, key, value, ""),
               command(operationSet, source, key, value))

\* Store.DeleteKey
StoreDeleteKey(n, source, key) ==
  /\ n \in Nodes
  /\ \/ notLeader(n, "DeleteKey", request("", source, key, NilValue, ""))
     \/ submit(n, "DeleteKey", request("", source, key, NilValue, ""),
               command(operationDeleteKey, source, key, NilValue))

\* Store.DeleteSource
StoreDeleteSource(n, source) ==
  /\ n \in Nodes
  /\ \/ notLeader(n, "DeleteSource", request("", source, "", NilValue, ""))
     \/ submit(n, "DeleteSource", request("", source, "", NilValue, ""),
               command(operationDeleteSource, source, "", NilValue))

\* s.raft.AddPeer(addr) on the leader; ErrKnownPeer is turned into success.
addPeer(ps, addr) == ps \cup {addr}

\* The errors the future of s.raft.AddPeer can give besides nil:
\* raft.ErrKnownPeer, and the ones of a change that was not committed.
ErrKnownPeer == "ErrKnownPeer"
ErrEnqueueTimeout == "ErrEnqueueTimeout"

\* f := s.raft.AddPeer(addr); f.Error(): the error and the peer set after
\* it.  A known peer gives ErrKnownPeer; for a new one the change is
\* committed, or it fails (fails) and the peer set stays.
raftAddPeer(ps, addr, fails) ==
  IF addr \in ps THEN [err |-> ErrKnownPeer, peers |-> ps]
  ELSE IF fails THEN [err |-> ErrEnqueueTimeout, peers |-> ps]
  ELSE [err |-> "", peers |-> addPeer(ps, addr)]

\* A Join that returns every error of AddPeer.
joinErrorAny(err) == err # ""

\* `if err := f.Error(); err != nil { if err == raft.ErrKnownPeer { return
\* nil }; return err }` of Store.Join: whether Join returns an error.
joinError(err) == err # "" /\ err # ErrKnownPeer

\* Store.Join
StoreJoin(n, addr) ==
  /\ n \in Nodes
  /\ \/ notLeader(n, "Join", request("", "", "", NilValue, addr))
     \/ /\ IsLeader(n)
        /\ \E fails \in BOOLEAN :
             LET f == raftAddPeer(peers, addr, fails) IN
               /\ peers' = f.peers
               /\ calls' = Append(calls,
                             [call("store", n, "Join",
                                   request("", "", "", NilValue, addr))
                                EXCEPT !.pc = "returned",
                                       !.err = joinError(f.err),
                                       !.raftErr = f.err])
        /\ UNCHANGED <<leader, log, applied, storage, pubs, mu, snapshots,
                       reads, unsubAt, client, boot>>
        /\ UNCHANGED serverVars

\* fsm.publishCallback when no callback is ever set: the goroutine ends.
PublishCallbackUnset(n, g) ==
  /\ g \in DOMAIN pubs[n]
  /\ pubs[n][g].pc = "callback"
  /\ pubs' = [pubs EXCEPT ![n][g].pc = "done"]
  /\ UNCHANGED storeVars
  /\ UNCHANGED serverVars
  /\ UNCHANGED clientVars

\* fsm.publishCallback with Store.PublishCallback unset: the goroutine ends.
\* With it set, the goroutine starts `go f.PublishCallback(...)`, which is
\* Server.publish.
PublishCallback(n, g) ==
  /\ g \in DOMAIN pubs[n]
  /\ pubs[n][g].pc = "callback"
  /\ pubs' = [pubs EXCEPT ![n][g].pc =
               IF initialized[n] THEN "publish" ELSE "done"]
  /\ UNCHANGED storeVars
  /\ UNCHANGED serverVars
  /\ UNCHANGED clientVars

\* ---------------------------------------------------------------- server

\* A Subscribe that removes the session when it is already subscribed.
subscribeToggles(subs, source, session) ==
  IF source \in DOMAIN subs /\ session \in subs[source]
  THEN MapPut(subs, source, subs[source] \ {session})
  ELSE MapPut(subs, source,
              (IF source \in DOMAIN subs THEN subs[source] ELSE {})
                \cup {session})

\* The `len(req.Session) == 0`, `len(req.Source) == 0` and, for the key
\* variants, `len(req.Key) == 0` checks of Subscribe, SubscribeKey,
\* Unsubscribe and UnsubscribeKey: the only paths that return an error.
subscriptionError(op, session, source, key) ==
  \/ session = ""
  \/ source = ""
  \/ op \in {"SubscribeKey", "UnsubscribeKey"} /\ key = ""

\* Server.Subscribe: the source subscriptions after the call.
subscribe(subs, source, session) ==
  MapPut(subs, source,
         (IF source \in DOMAIN subs THEN subs[source] ELSE {}) \cup {session})

\* Server.SubscribeKey: the key subscriptions after the call.
subscribeKey(subs, source, key, session) ==
  LET m == IF source \in DOMAIN subs THEN subs[source] ELSE EmptyMap
      ss == IF key \in DOMAIN m THEN m[key] ELSE {}
  IN  MapPut(subs, source, MapPut(m, key, ss \cup {session}))

\* An Unsubscribe that removes nothing.
unsubscribeKeeps(subs, source, session) == subs

\* Server.Unsubscribe: the source subscriptions after the call.
unsubscribe(subs, source, session) ==
  IF source \notin DOMAIN subs THEN subs
  ELSE IF session \notin subs[source] THEN subs
  ELSE MapPut(subs, source, subs[source] \ {session})

\* Server.UnsubscribeKey: the key subscriptions after the call.
unsubscribeKey(subs, source, key, session) ==
  IF source \notin DOMAIN subs THEN subs
  ELSE IF key \notin DOMAIN subs[source] THEN subs
  ELSE IF session \notin subs[source][key] THEN subs
  ELSE MapPut(subs, source,
              MapPut(subs[source], key, subs[source][key] \ {session}))

\* Server.removeSession, first section: delete(s.sourceSubs, sessionIdentifier).
removeSessionSourceSubs(subs, sessionIdentifier) ==
  MapDel(subs, sessionIdentifier)

\* Server.removeSession, second section: delete(s.keySubs, sessionIdentifier).
removeSessionKeySubs(subs, sessionIdentifier) ==
  MapDel(subs, sessionIdentifier)

\* Server.removeSession, third section: delete(s.sessions, sessionIdentifier).
removeSessionSessions(ss, sessionIdentifier) ==
  MapDel(ss, sessionIdentifier)

\* The sessions subscribed to source.
SourceSubscribers(n, source) ==
  IF source \in DOMAIN sourceSubs[n] THEN sourceSubs[n][source] ELSE {}

\* The sessions subscribed to any key of source.
KeySubscribersOfSource(n, source, key) ==
  IF source \in DOMAIN keySubs[n]
  THEN UNION {keySubs[n][source][k] : k \in DOMAIN keySubs[n][source]}
  ELSE {}

\* The sessions subscribed to (source, key).
KeySubscribers(n, source, key) ==
  IF source \in DOMAIN keySubs[n] /\ key \in DOMAIN keySubs[n][source]
  THEN keySubs[n][source][key]
  ELSE {}

\* Server.initialize: every handler runs it first.
initialize(n) == initialized' = [initialized EXCEPT ![n] = TRUE]

\* Server.generateSessionID as called by Connect: session is the identifier
\* drawn from rand.Read.  If it is registered, the function calls itself
\* with sessionsMutex still locked (the unlock is deferred) and the inner
\* Lock never returns; otherwise it unlocks and returns the identifier.
ConnectGenerate(n, session) ==
  /\ sessionsMutex[n] = Free
  /\ initialize(n)
  /\ IF session \in DOMAIN sessions[n]
     THEN /\ connects' = [connects EXCEPT ![n] =
                           Append(@, [pc |-> "stuck", session |-> session])]
          /\ sessionsMutex' = [sessionsMutex EXCEPT ![n] =
                                <<"connect", Len(connects[n]) + 1>>]
     ELSE /\ connects' = [connects EXCEPT ![n] =
                           Append(@, [pc |-> "generated", session |-> session])]
          /\ UNCHANGED sessionsMutex
  /\ UNCHANGED <<sessions, sourceSubs, keySubs, sourceSubsMutex, keySubsMutex,
                 listens, pubs>>
  /\ UNCHANGED storeVars
  /\ UNCHANGED <<proxy, calls, unsubAt, client, boot>>

\* Server.Connect after generateSessionID: addSession(session, nil), then the
\* identifier is returned to the client.
ConnectAdd(n, c) ==
  /\ c \in DOMAIN connects[n]
  /\ connects[n][c].pc = "generated"
  /\ sessionsMutex[n] = Free
  /\ sessions' = [sessions EXCEPT ![n] =
                   MapPut(@, connects[n][c].session, NoListener)]
  /\ connects' = [connects EXCEPT ![n][c].pc = "returned"]
  /\ UNCHANGED <<initialized, sourceSubs, keySubs, sessionsMutex,
                 sourceSubsMutex, keySubsMutex, listens, pubs>>
  /\ UNCHANGED storeVars
  /\ UNCHANGED <<proxy, calls, unsubAt, client, boot>>

\* The Connect calls that have returned their identifier to the client.
Returned(n) ==
  {c \in DOMAIN connects[n] : connects[n][c].pc = "returned"}

\* Server.Listen up to `<-stream.Context().Done()`: addSession(req.Session,
\* stream).  The new stream is the call's position in listens.
Listen(n, session) ==
  /\ sessionsMutex[n] = Free
  /\ initialize(n)
  /\ sessions' = [sessions EXCEPT ![n] = MapPut(@, session, Len(listens[n]) + 1)]
  /\ listens' = [listens EXCEPT ![n] =
                  Append(@, [session |-> session, pc |-> "waiting",
                             ctx |-> "open", stalled |-> FALSE, recv |-> <<>>,
                             via |-> <<>>])]
  /\ UNCHANGED <<sourceSubs, keySubs, sessionsMutex, sourceSubsMutex,
                 keySubsMutex, connects, pubs>>
  /\ UNCHANGED storeVars
  /\ UNCHANGED <<proxy, calls, unsubAt, client, boot>>

\* Server.Listen seen one statement at a time, first part: addSession takes
\* sessionsMutex.  The new stream is the call's position in listens.
ListenLock(n, session) ==
  /\ sessionsMutex[n] = Free
  /\ initialize(n)
  /\ sessionsMutex' = [sessionsMutex EXCEPT ![n] =
                        <<"listen", Len(listens[n]) + 1>>]
  /\ listens' = [listens EXCEPT ![n] =
                  Append(@, [session |-> session, pc |-> "adding",
                             ctx |-> "open", stalled |-> FALSE, recv |-> <<>>,
                             via |-> <<>>])]
  /\ UNCHANGED <<sessions, sourceSubs, keySubs, sourceSubsMutex,
                 keySubsMutex, connects, pubs>>
  /\ UNCHANGED storeVars
  /\ UNCHANGED <<proxy, calls, unsubAt, client, boot>>

\* Server.Listen seen one statement at a time, second part: addSession
\* writes s.sessions[sessionIdentifier], the deferred Unlock runs, and Listen
\* waits for the stream's context.
ListenAdd(n, l) ==
  /\ l \in DOMAIN listens[n]
  /\ listens[n][l].pc = "adding"
  /\ sessionsMutex[n] = <<"listen", l>>
  /\ sessions' = [sessions EXCEPT ![n] = MapPut(@, listens[n][l].session, l)]
  /\ sessionsMutex' = [sessionsMutex EXCEPT ![n] = Free]
  /\ listens' = [listens EXCEPT ![n][l].pc = "waiting"]
  /\ UNCHANGED <<initialized, sourceSubs, keySubs, sourceSubsMutex,
                 keySubsMutex, connects, pubs>>
  /\ UNCHANGED storeVars
  /\ UNCHANGED <<proxy, calls, unsubAt, client, boot>>

\* The stream's context ends (the client cancels or disconnects): Listen
\* wakes up and enters removeSession.
ListenContextDone(n, l) ==
  /\ l \in DOMAIN listens[n]
  /\ listens[n][l].pc = "waiting"
  /\ listens' = [listens EXCEPT ![n][l].ctx = "done",
                                ![n][l].pc = "removeSource"]
  /\ UNCHANGED <<initialized, sessions, sourceSubs, keySubs, sessionsMutex,
                 sourceSubsMutex, keySubsMutex, connects, pubs>>
  /\ UNCHANGED storeVars
  /\ UNCHANGED <<proxy, calls, unsubAt, client, boot>>

\* Server.removeSession, the section under sourceSubsMutex.
RemoveSessionSource(n, l) ==
  /\ l \in DOMAIN listens[n]
  /\ listens[n][l].pc = "removeSource"
  /\ sourceSubsMutex[n] = Free
  /\ sourceSubs' = [sourceSubs EXCEPT ![n] =
                     removeSessionSourceSubs(@, listens[n][l].session)]
  /\ listens' = [listens EXCEPT ![n][l].pc = "removeKey"]
  /\ UNCHANGED <<initialized, sessions, keySubs, sessionsMutex,
                 sourceSubsMutex, keySubsMutex, connects, pubs>>
  /\ UNCHANGED storeVars
  /\ UNCHANGED <<proxy, calls, unsubAt, client, boot>>

\* Server.removeSession, the section under keySubsMutex.
RemoveSessionKey(n, l) ==
  /\ l \in DOMAIN listens[n]
  /\ listens[n][l].pc = "removeKey"
  /\ keySubsMutex[n] = Free
  /\ keySubs' = [keySubs EXCEPT ![n] =
                  removeSessionKeySubs(@, listens[n][l].session)]
  /\ listens' = [listens EXCEPT ![n][l].pc = "removeSession"]
  /\ UNCHANGED <<initialized, sessions, sourceSubs, sessionsMutex,
                 sourceSubsMutex, keySubsMutex, connects, pubs>>
  /\ UNCHANGED storeVars
  /\ UNCHANGED <<proxy, calls, unsubAt, client, boot>>

\* Server.removeSession, the section under sessionsMutex; Listen returns.
RemoveSessionSession(n, l) ==
  /\ l \in DOMAIN listens[n]
  /\ listens[n][l].pc = "removeSession"
  /\ sessionsMutex[n] = Free
  /\ sessions' = [sessions EXCEPT ![n] =
                   removeSessionSessions(@, listens[n][l].session)]
  /\ listens' = [listens EXCEPT ![n][l].pc = "returned"]
  /\ UNCHANGED <<initialized, sourceSubs, keySubs, sessionsMutex,
                 sourceSubsMutex, keySubsMutex, connects, pubs>>
  /\ UNCHANGED storeVars
  /\ UNCHANGED <<proxy, calls, unsubAt, client, boot>>

\* Server.Subscribe with a non-empty session and source.  unsubAt is not
\* program state: it keeps, for a subscription that was removed and not made
\* again, the length of the log when Unsubscribe or UnsubscribeKey returned.
Subscribe(n, session, source) ==
  /\ sourceSubsMutex[n] = Free
  /\ initialize(n)
  /\ sourceSubs' = [sourceSubs EXCEPT ![n] = subscribe(@, source, session)]
  /\ unsubAt' = [unsubAt EXCEPT ![n] = MapDel(@, <<session, source>>)]
  /\ UNCHANGED <<sessions, keySubs, sessionsMutex, sourceSubsMutex,
                 keySubsMutex, connects, listens, pubs>>
  /\ UNCHANGED storeVars
  /\ UNCHANGED <<proxy, calls, client, boot>>

\* Server.SubscribeKey with a non-empty session, source and key.
SubscribeKey(n, session, source, key) ==
  /\ keySubsMutex[n] = Free
  /\ initialize(n)
  /\ keySubs' = [keySubs EXCEPT ![n] = subscribeKey(@, source, key, session)]
  /\ unsubAt' = [unsubAt EXCEPT ![n] = MapDel(@, <<session, source, key>>)]
  /\ UNCHANGED <<sessions, sourceSubs, sessionsMutex, sourceSubsMutex,
                 keySubsMutex, connects, listens, pubs>>
  /\ UNCHANGED storeVars
  /\ UNCHANGED <<proxy, calls, client, boot>>

\* Server.Unsubscribe with a non-empty session and source.
Unsubscribe(n, session, source) ==
  /\ sourceSubsMutex[n] = Free
  /\ initialize(n)
  /\ sourceSubs' = [sourceSubs EXCEPT ![n] = unsubscribe(@, source, session)]
  /\ unsubAt' = [unsubAt EXCEPT ![n] = MapPut(@, <<session, source>>, Len(log))]
  /\ UNCHANGED <<sessions, keySubs, sessionsMutex, sourceSubsMutex,
                 keySubsMutex, connects, listens, pubs>>
  /\ UNCHANGED storeVars
  /\ UNCHANGED <<proxy, calls, client, boot>>

\* Server.UnsubscribeKey with a non-empty session, source and key.
UnsubscribeKey(n, session, source, key) ==
  /\ keySubsMutex[n] = Free
  /\ initialize(n)
  /\ keySubs' = [keySubs EXCEPT ![n] = unsubscribeKey(@, source, key, session)]
  /\ unsubAt' = [unsubAt EXCEPT ![n] =
                   MapPut(@, <<session, source, key>>, Len(log))]
  /\ UNCHANGED <<sessions, sourceSubs, sessionsMutex, sourceSubsMutex,
                 keySubsMutex, connects, listens, pubs>>
  /\ UNCHANGED storeVars
  /\ UNCHANGED <<proxy, calls, client, boot>>

\* ------------------------------------------------------------- api client

\* The *UpdateHandler values an application registers.
Handlers == {"h1", "h2"}

\* The last call of Subscribe, SubscribeKey, Unsubscribe or UnsubscribeKey on
\* the client; rpc tells whether it called the server.  Not program state.
clientCall(op, source, key, handler, rpc) ==
  [op |-> op, source |-> source, key |-> key, handler |-> handler,
   rpc |-> rpc]

\* api.NewClient: the session the server gave it and no handlers.
NewClient ==
  [session |-> "AA", sourceHandlers |-> EmptyMap, keyHandlers |-> EmptyMap,
   last |-> clientCall("", "", "", "", FALSE)]

\* The index removeHandler finds: the loop does not stop at the first match,
\* so it is the last position holding handler; 0 stands for -1.
handlerIndex(handler, handlers) ==
  IF \E i \in DOMAIN handlers : handlers[i] = handler
  THEN CHOOSE i \in DOMAIN handlers :
         /\ handlers[i] = handler
         /\ \A j \in DOMAIN handlers : handlers[j] = handler => j <= i
  ELSE 0

\* A removeHandler that keeps only what stands before the handler.
removeHandlerTruncates(handler, handlers) ==
  IF handlerIndex(handler, handlers) > 0
  THEN SubSeq(handlers, 1, handlerIndex(handler, handlers) - 1)
  ELSE handlers

\* removeHandler: append(handlers[:index], handlers[index+1:]...) when the
\* handler was found.
removeHandler(handler, handlers) ==
  IF handlerIndex(handler, handlers) > 0
  THEN SubSeq(handlers, 1, handlerIndex(handler, handlers) - 1)
         \o SubSeq(handlers, handlerIndex(handler, handlers) + 1,
                   Len(handlers))
  ELSE handlers

\* c.sourceHandlers[source]: nil (here the empty sequence) when absent.
sourceHandlersOf(source) ==
  IF source \in DOMAIN client.sourceHandlers
  THEN client.sourceHandlers[source] ELSE <<>>

\* c.keyHandlers[source][key]: nil (here the empty sequence) when absent.
keyHandlersOf(source, key) ==
  IF source \in DOMAIN client.keyHandlers
       /\ key \in DOMAIN client.keyHandlers[source]
  THEN client.keyHandlers[source][key] ELSE <<>>

\* Client.Subscribe: the handler is appended and the Subscribe RPC is made
\* with c.session; Server.Subscribe of node n serves it.
ClientSubscribe(n, source, handler) ==
  /\ Len(sourceHandlersOf(source)) < MaxHandlers
  /\ sourceSubsMutex[n] = Free
  /\ initialize(n)
  /\ client' = [client EXCEPT
                  !.sourceHandlers =
                    MapPut(@, source, Append(sourceHandlersOf(source), handler)),
                  !.last = clientCall("Subscribe", source, "", handler, TRUE)]
  /\ sourceSubs' = [sourceSubs EXCEPT ![n] =
                     subscribe(@, source, client.session)]
  /\ unsubAt' = [unsubAt EXCEPT ![n] = MapDel(@, <<client.session, source>>)]
  /\ UNCHANGED <<sessions, keySubs, sessionsMutex, sourceSubsMutex,
                 keySubsMutex, connects, listens, pubs>>
  /\ UNCHANGED storeVars
  /\ UNCHANGED <<proxy, calls, boot>>

\* Client.SubscribeKey: the handler is appended and the SubscribeKey RPC is
\* made; Server.SubscribeKey of node n serves it.
ClientSubscribeKey(n, source, key, handler) ==
  /\ Len(keyHandlersOf(source, key)) < MaxHandlers
  /\ keySubsMutex[n] = Free
  /\ initialize(n)
  /\ client' = [client EXCEPT
                  !.keyHandlers =
                    MapPut(@, source,
                           MapPut(IF source \in DOMAIN @ THEN @[source]
                                  ELSE EmptyMap,
                                  key,
                                  Append(keyHandlersOf(source, key), handler))),
                  !.last = clientCall("SubscribeKey", source, key, handler,
                                      TRUE)]
  /\ keySubs' = [keySubs EXCEPT ![n] =
                  subscribeKey(@, source, key, client.session)]
  /\ unsubAt' = [unsubAt EXCEPT ![n] =
                   MapDel(@, <<client.session, source, key>>)]
  /\ UNCHANGED <<sessions, sourceSubs, sessionsMutex, sourceSubsMutex,
                 keySubsMutex, connects, listens, pubs>>
  /\ UNCHANGED storeVars
  /\ UNCHANGED <<proxy, calls, boot>>

\* Client.Unsubscribe: when handlers are registered for the source the
\* handler is removed, and the call returns if some are left; otherwise the
\* Unsubscribe RPC is made and Server.Unsubscribe of node n serves it.
ClientUnsubscribe(n, source, handler) ==
  LET registered == source \in DOMAIN client.sourceHandlers
      left == removeHandler(handler, sourceHandlersOf(source))
      rpc == ~(registered /\ Len(left) > 0)
  IN  /\ client' = [client EXCEPT
                      !.sourceHandlers =
                        IF registered THEN MapPut(@, source, left) ELSE @,
                      !.last = clientCall("Unsubscribe", source, "", handler,
                                          rpc)]
      /\ IF rpc
         THEN /\ sourceSubsMutex[n] = Free
              /\ initialize(n)
              /\ sourceSubs' = [sourceSubs EXCEPT ![n] =
                                 unsubscribe(@, source, client.session)]
              /\ unsubAt' = [unsubAt EXCEPT ![n] =
                               MapPut(@, <<client.session, source>>, Len(log))]
         ELSE UNCHANGED <<initialized, sourceSubs, unsubAt>>
      /\ UNCHANGED <<sessions, keySubs, sessionsMutex, sourceSubsMutex,
                     keySubsMutex, connects, listens, pubs>>
      /\ UNCHANGED storeVars
      /\ UNCHANGED <<proxy, calls, boot>>

\* Client.UnsubscribeKey: as Unsubscribe, for the handlers of (source, key).
ClientUnsubscribeKey(n, source, key, handler) ==
  LET registered == /\ source \in DOMAIN client.keyHandlers
                    /\ key \in DOMAIN client.keyHandlers[source]
      left == removeHandler(handler, keyHandlersOf(source, key))
      rpc == ~(registered /\ Len(left) > 0)
  IN  /\ client' = [client EXCEPT
                      !.keyHandlers =
                        IF registered
                        THEN MapPut(@, source, MapPut(@[source], key, left))
                        ELSE @,
                      !.last = clientCall("UnsubscribeKey", source, key,
                                          handler, rpc)]
      /\ IF rpc
         THEN /\ keySubsMutex[n] = Free
              /\ initialize(n)
              /\ keySubs' = [keySubs EXCEPT ![n] =
                              unsubscribeKey(@, source, key, client.session)]
              /\ unsubAt' = [unsubAt EXCEPT ![n] =
                               MapPut(@, <<client.session, source, key>>,
                                      Len(log))]
         ELSE UNCHANGED <<initialized, keySubs, unsubAt>>
      /\ UNCHANGED <<sessions, sourceSubs, sessionsMutex, sourceSubsMutex,
                     keySubsMutex, connects, listens, pubs>>
      /\ UNCHANGED storeVars
      /\ UNCHANGED <<proxy, calls, boot>>

\* ------------------------------------------------------- request routing

\* The handlers that start with `if !s.IsLeader()`.
Routed == {"Join", "SetValue", "GetValue", "RemoveValue", "RemoveSource"}

\* The handlers that end in Store.Set, DeleteKey or DeleteSource.
Writes == {"SetValue", "RemoveValue", "RemoveSource"}

\* The len(req.Source) == 0 and len(req.Key) == 0 checks of a handler.
valid(op, req) ==
  CASE op \in {"SetValue", "GetValue", "RemoveValue"} ->
         req.source # "" /\ req.key # ""
    [] op \in {"RemoveSource", "GetKeys"} -> req.source # ""
    [] OTHER -> TRUE

\* The command Store.Set, DeleteKey or DeleteSource builds for the request.
commandOf(op, req) ==
  CASE op = "SetValue" ->
         command(operationSet, req.source, req.key, req.value)
    [] op = "RemoveValue" ->
         command(operationDeleteKey, req.source, req.key, NilValue)
    [] OTHER -> command(operationDeleteSource, req.source, "", NilValue)

\* The response a Server handler builds when it handles the request itself;
\* value and list are what the Store gave a read.
serverResponse(op, req, value, list) ==
  CASE op = "SetValue" -> response("", "", "", req.value, {})
    [] op = "GetValue" -> response("", "", "", value, {})
    [] op = "RemoveValue" ->
         response(req.session, req.source, req.key, NilValue, {})
    [] op = "RemoveSource" ->
         response(req.session, req.source, "", NilValue, {})
    [] op \in {"GetSources", "GetKeys"} ->
         response("", "", "", NilValue, list)
    [] OTHER -> NoResponse

\* The response a Proxy method builds after its client call succeeded; value
\* is what client.GetValue returned.
proxyResponse(op, req, value) ==
  CASE op = "SetValue" -> response("", "", "", req.value, {})
    [] op = "GetValue" -> response("", "", "", value, {})
    [] op = "RemoveValue" -> response("", req.source, req.key, NilValue, {})
    [] op = "RemoveSource" -> response("", req.source, "", NilValue, {})
    [] OTHER -> NoResponse

\* The Server calls that have returned.
ReturnedCalls ==
  {i \in DOMAIN calls : calls[i].api = "rpc" /\ calls[i].pc = "returned"}

\* The Server calls received so far.
Received == {i \in DOMAIN calls : calls[i].api = "rpc"}

\* calls with record rec at position c, the next position included.
putCall(c, rec) ==
  IF c > Len(calls) THEN Append(calls, rec) ELSE [calls EXCEPT ![c] = rec]

\* Where a call goes once its handler on the serving node is through: back
\* to the proxy that forwarded it, or to the client.
through(rec) == IF rec.proxied THEN "reply" ELSE "returned"

\* A write handler that returns as soon as the command is in the log.
donePcAtCommit(rec) == through(rec)

\* The pc of a write handler after Store.Set, DeleteKey or DeleteSource
\* submitted the command: it waits for the future's Error().
donePc(rec) == "waiting"

\* The body of a Server handler past the leader check, run on node n for the
\* call at position c: the validation, then the Store call.  n is the node
\* that received the request, or the leader a proxy forwarded it to.
Serve(n, c, rec, req) ==
  \/ /\ ~valid(rec.op, req)
     /\ calls' = putCall(c, [rec EXCEPT !.pc = through(rec), !.err = TRUE])
     /\ UNCHANGED storeVars
  \/ /\ valid(rec.op, req)
     /\ rec.op \in Writes
     /\ raftApply(n, commandOf(rec.op, req))
     /\ calls' = putCall(c, [rec EXCEPT
                               !.pc = donePc(rec), !.idx = Len(log) + 1,
                               !.resp = serverResponse(rec.op, req, NilValue, {})])
  \/ /\ valid(rec.op, req)
     /\ rec.op = "Join"
     /\ IsLeader(n)
     /\ \E fails \in BOOLEAN :
          LET f == raftAddPeer(peers, req.address, fails) IN
            /\ peers' = f.peers
            /\ calls' = putCall(c, [rec EXCEPT !.pc = through(rec),
                                               !.err = joinError(f.err),
                                               !.raftErr = f.err])
     /\ UNCHANGED <<leader, log, applied, storage, mu, snapshots, reads>>
  \/ /\ valid(rec.op, req)
     /\ rec.op = "GetValue"
     /\ mu[n] = Free
     /\ calls' = putCall(c, [rec EXCEPT
                               !.pc = through(rec), !.idx = applied[n],
                               !.resp = serverResponse(rec.op, req,
                                          Get(n, req.source, req.key), {})])
     /\ UNCHANGED storeVars
  \/ /\ valid(rec.op, req)
     /\ rec.op = "GetSources"
     /\ mu[n] = Free
     /\ calls' = putCall(c, [rec EXCEPT
                               !.pc = through(rec), !.idx = applied[n],
                               !.resp = serverResponse(rec.op, req, NilValue,
                                                       GetSources(n))])
     /\ UNCHANGED storeVars
  \/ /\ valid(rec.op, req)
     /\ rec.op = "GetKeys"
     /\ mu[n] = Free
     /\ calls' = putCall(c, [rec EXCEPT
                               !.pc = through(rec), !.idx = applied[n],
                               !.resp = serverResponse(rec.op, req, NilValue,
                                                       GetKeys(n, req.source))])
     /\ UNCHANGED storeVars

\* What a handler does with a request on a node that is not the leader when
\* it sends every such request to the proxy.
routeAlwaysProxy(n, op) ==
  IF op \in Routed /\ ~IsLeader(n) THEN "proxy" ELSE "local"

\* `if !s.IsLeader() { if s.Proxy == nil { return nil, errors.New(...) };
\* return s.Proxy.X(ctx, req, s.Leader()) }`, which GetSources and GetKeys
\* do not have.
route(n, op) ==
  IF op \in Routed /\ ~IsLeader(n)
  THEN IF proxy[n] THEN "proxy" ELSE "error"
  ELSE "local"

\* A Server handler from its first statement to its first wait: Join,
\* GetSources, GetKeys, SetValue, GetValue, RemoveValue or RemoveSource on
\* node n.
Receive(n, op, req) ==
  LET c == Len(calls) + 1
      rec == [call("rpc", n, op, req) EXCEPT !.after = ReturnedCalls]
  IN  /\ initialize(n)
      /\ \/ /\ route(n, op) = "error"
            /\ calls' = Append(calls, [rec EXCEPT !.pc = "returned",
                                                  !.err = TRUE])
            /\ UNCHANGED storeVars
         \/ /\ route(n, op) = "proxy"
            /\ calls' = Append(calls, [rec EXCEPT !.pc = "dial",
                                                  !.proxied = TRUE,
                                                  !.to = leader])
            /\ UNCHANGED storeVars
         \/ /\ route(n, op) = "local"
            /\ Serve(n, c, rec, req)
      /\ UNCHANGED <<sessions, sourceSubs, keySubs, sessionsMutex,
                     sourceSubsMutex, keySubsMutex, connects, listens, proxy,
                     pubs, unsubAt, client, boot>>

\* Server.Join
Join(n, address) == Receive(n, "Join", request("", "", "", NilValue, address))

\* Server.GetSources
ServerGetSources(n, session) ==
  Receive(n, "GetSources", request(session, "", "", NilValue, ""))

\* Server.GetKeys
ServerGetKeys(n, session, source) ==
  Receive(n, "GetKeys", request(session, source, "", NilValue, ""))

\* Server.SetValue
SetValue(n, session, source, key, value) ==
  Receive(n, "SetValue", request(session, source, key, value, ""))

\* Server.GetValue
GetValue(n, session, source, key) ==
  Receive(n, "GetValue", request(session, source, key, NilValue, ""))

\* Server.RemoveValue
RemoveValue(n, session, source, key) ==
  Receive(n, "RemoveValue", request(session, source, key, NilValue, ""))

\* Server.RemoveSource
RemoveSource(n, session, source) ==
  Receive(n, "RemoveSource", request(session, source, "", NilValue, ""))

\* The node whose handler ran the Store call of a record: the node that
\* received the request, or the node the proxy delivered it to.
servedBy(rec) == IF rec.proxied THEN rec.to ELSE rec.node

\* A write handler that returns the error of the publish its entry started.
CommittedSurfacesPublishError(c) ==
  /\ c \in DOMAIN calls
  /\ calls[c].pc = "waiting"
  /\ applied[servedBy(calls[c])] >= calls[c].idx
  /\ calls' = [calls EXCEPT
                 ![c].pc = through(calls[c]),
                 ![c].err = \E g \in DOMAIN pubs[servedBy(calls[c])] :
                              /\ pubs[servedBy(calls[c])][g].idx = calls[c].idx
                              /\ pubs[servedBy(calls[c])][g].errs > 0]
  /\ UNCHANGED <<pubs, unsubAt, client, boot>>
  /\ UNCHANGED storeVars
  /\ UNCHANGED serverVars

\* s.raft.Apply(b, raftTimeout).Error() returns: the FSM of the node that
\* submitted the entry of call c has applied it, and the handler returns its
\* response.
Committed(c) ==
  /\ c \in DOMAIN calls
  /\ calls[c].pc = "waiting"
  /\ applied[servedBy(calls[c])] >= calls[c].idx
  /\ calls' = [calls EXCEPT ![c].pc = through(calls[c])]
  /\ UNCHANGED <<pubs, unsubAt, client, boot>>
  /\ UNCHANGED storeVars
  /\ UNCHANGED serverVars

\* Proxy.getProxyClient for call c: NewTLSClient dials the node s.Leader()
\* named, calls Connect, which draws identifier id, and opens the Listen
\* stream.  If id is registered, generateSessionID on that node never returns.
ProxyDial(c, id) ==
  /\ c \in DOMAIN calls
  /\ calls[c].pc = "dial"
  /\ LET t == calls[c].to
     IN  /\ sessionsMutex[t] = Free
         /\ initialize(t)
         /\ IF id \in DOMAIN sessions[t]
            THEN /\ connects' = [connects EXCEPT ![t] =
                                  Append(@, [pc |-> "stuck", session |-> id])]
                 /\ sessionsMutex' = [sessionsMutex EXCEPT ![t] =
                                       <<"connect", Len(connects[t]) + 1>>]
                 /\ calls' = [calls EXCEPT ![c].pc = "stuck"]
                 /\ UNCHANGED <<sessions, listens>>
            ELSE /\ connects' = [connects EXCEPT ![t] =
                                  Append(@, [pc |-> "returned",
                                             session |-> id])]
                 /\ sessions' = [sessions EXCEPT ![t] =
                                  MapPut(@, id, Len(listens[t]) + 1)]
                 /\ listens' = [listens EXCEPT ![t] =
                                 Append(@, [session |-> id, pc |-> "waiting",
                                            ctx |-> "open",
                                            stalled |-> FALSE,
                                            recv |-> <<>>, via |-> <<>>])]
                 /\ calls' = [calls EXCEPT
                                ![c].pc = "forward",
                                ![c].lst = Len(listens[t]) + 1,
                                ![c].path =
                                  Append(@, <<t, Len(listens[t]) + 1>>)]
                 /\ UNCHANGED sessionsMutex
  /\ UNCHANGED <<sourceSubs, keySubs, sourceSubsMutex, keySubsMutex, proxy,
                 pubs, unsubAt, client, boot>>
  /\ UNCHANGED storeVars

\* Proxy.getProxyClient fails (no leader known, or it cannot be reached):
\* the error is returned to the caller.
ProxyDialFail(c) ==
  /\ c \in DOMAIN calls
  /\ calls[c].pc = "dial"
  /\ calls' = [calls EXCEPT ![c].pc = "returned", ![c].err = TRUE]
  /\ UNCHANGED <<pubs, unsubAt, client, boot>>
  /\ UNCHANGED storeVars
  /\ UNCHANGED serverVars

\* The proxy's client call arrives on the node dialled, carrying the source,
\* key and value of the request and the client's own session, and that
\* node's handler runs from its first statement: it serves the request when
\* the node is the leader, and otherwise returns an error or hands the
\* request to its own Proxy with what its s.Leader() says now.
ProxyForward(c) ==
  /\ c \in DOMAIN calls
  /\ calls[c].pc = "forward"
  /\ LET t == calls[c].to
     IN  /\ initialize(t)
         /\ \/ /\ route(t, calls[c].op) = "local"
               /\ Serve(t, c, calls[c],
                        [calls[c].req EXCEPT
                           !.session = listens[t][calls[c].lst].session])
            \/ /\ route(t, calls[c].op) = "error"
               /\ calls' = [calls EXCEPT ![c].pc = through(calls[c]),
                                         ![c].err = TRUE]
               /\ UNCHANGED storeVars
            \/ /\ route(t, calls[c].op) = "proxy"
               /\ Len(calls[c].path) < MaxHops
               /\ calls' = [calls EXCEPT ![c].pc = "dial",
                                         ![c].to = leader]
               /\ UNCHANGED storeVars
  /\ UNCHANGED <<sessions, sourceSubs, keySubs, sessionsMutex,
                 sourceSubsMutex, keySubsMutex, connects, listens, proxy,
                 pubs, unsubAt, client, boot>>

\* The Listen stream l of node n after the Proxy methods of a call that
\* forwarded along path have returned.
closedBy(path, n, l) ==
  IF \E h \in DOMAIN path : path[h] = <<n, l>>
  THEN [listens[n][l] EXCEPT !.ctx = "done", !.pc = "removeSource"]
  ELSE listens[n][l]

\* The rest of a Proxy method for call c: the client call has returned, the
\* response is built from the request, and the deferred client.Close() ends
\* the context of the Listen stream the proxy opened; every node that
\* forwarded the request does so in turn.
ProxyReply(c) ==
  /\ c \in DOMAIN calls
  /\ calls[c].pc = "reply"
  /\ calls' = [calls EXCEPT
                 ![c].pc = "returned",
                 ![c].resp = IF calls[c].err THEN NoResponse
                             ELSE proxyResponse(calls[c].op, calls[c].req,
                                                calls[c].resp.value)]
  /\ listens' = [n \in Nodes |->
                  [l \in DOMAIN listens[n] |->
                     closedBy(calls[c].path, n, l)]]
  /\ UNCHANGED <<initialized, sessions, sourceSubs, keySubs, sessionsMutex,
                 sourceSubsMutex, keySubsMutex, connects, proxy, pubs,
                 unsubAt, client, boot>>
  /\ UNCHANGED storeVars

\* The raft library elects another opened node: s.raft.State() and
\* s.raft.Leader() give the new answer on every node from this step on.
LeaderChange ==
  /\ \E n \in Opened \ {leader} : leader' = n
  /\ UNCHANGED <<log, applied, storage, mu, snapshots, reads, peers, pubs>>
  /\ UNCHANGED serverVars
  /\ UNCHANGED clientVars

\* ------------------------------------------------- first requests, by step

\* The zero Server of n1 before any request: the three mutex fields are nil
\* (0); made counts the sync.Mutex values allocated so far, each named by
\* its number; locked holds the allocated mutexes that are locked; reqs holds,
\* per session, where its Subscribe call stands, the mutex it locked and the
\* mutex its deferred Unlock will release.
ZeroServer ==
  [sessionsMutex |-> 0, sourceSubsMutex |-> 0, keySubsMutex |-> 0,
   made |-> 0, locked |-> {},
   reqs |-> [id \in SessionIDs |->
               [pc |-> "idle", holds |-> 0, unlocks |-> 0]]]

\* The request of session id stands at pc.
bootAt(id, pc) == boot.reqs[id].pc = pc

\* What no step of a first request writes.
bootFrame ==
  /\ UNCHANGED <<sessions, keySubs, sessionsMutex, sourceSubsMutex,
                 keySubsMutex, connects, listens, proxy, pubs, calls, client>>
  /\ UNCHANGED storeVars

\* Server.Subscribe enters initialize: `if s.initialized { return }`.
InitializeCheck(n, id) ==
  /\ bootAt(id, "idle")
  /\ boot' = [boot EXCEPT !.reqs[id].pc =
                 IF initialized[n] THEN "lock" ELSE "setInitialized"]
  /\ UNCHANGED <<initialized, sourceSubs, unsubAt>>
  /\ bootFrame

\* `s.initialized = true`
InitializeFlag(n, id) ==
  /\ bootAt(id, "setInitialized")
  /\ initialized' = [initialized EXCEPT ![n] = TRUE]
  /\ boot' = [boot EXCEPT !.reqs[id].pc = "newSessionsMutex"]
  /\ UNCHANGED <<sourceSubs, unsubAt>>
  /\ bootFrame

\* `s.sessionsMutex = &sync.Mutex{}`
InitializeSessionsMutex(n, id) ==
  /\ bootAt(id, "newSessionsMutex")
  /\ boot' = [boot EXCEPT !.made = @ + 1,
                          !.sessionsMutex = boot.made + 1,
                          !.reqs[id].pc = "newSourceSubsMutex"]
  /\ UNCHANGED <<initialized, sourceSubs, unsubAt>>
  /\ bootFrame

\* `s.sourceSubsMutex = &sync.Mutex{}`
InitializeSourceSubsMutex(n, id) ==
  /\ bootAt(id, "newSourceSubsMutex")
  /\ boot' = [boot EXCEPT !.made = @ + 1,
                          !.sourceSubsMutex = boot.made + 1,
                          !.reqs[id].pc = "newKeySubsMutex"]
  /\ UNCHANGED <<initialized, sourceSubs, unsubAt>>
  /\ bootFrame

\* `s.keySubsMutex = &sync.Mutex{}`, the PublishCallback assignment and the
\* return of initialize.
InitializeKeySubsMutex(n, id) ==
  /\ bootAt(id, "newKeySubsMutex")
  /\ boot' = [boot EXCEPT !.made = @ + 1,
                          !.keySubsMutex = boot.made + 1,
                          !.reqs[id].pc = "lock"]
  /\ UNCHANGED <<initialized, sourceSubs, unsubAt>>
  /\ bootFrame

\* `s.sourceSubsMutex.Lock()` of Server.Subscribe: a nil field makes the
\* call panic with a nil pointer dereference; a locked mutex makes it wait.
SubscribeLock(n, id) ==
  /\ bootAt(id, "lock")
  /\ \/ /\ boot.sourceSubsMutex = 0
        /\ boot' = [boot EXCEPT !.reqs[id].pc = "panic"]
     \/ /\ boot.sourceSubsMutex # 0
        /\ boot.sourceSubsMutex \notin boot.locked
        /\ boot' = [boot EXCEPT
                      !.locked = @ \cup {boot.sourceSubsMutex},
                      !.reqs[id].holds = boot.sourceSubsMutex,
                      !.reqs[id].pc = "defer"]
  /\ UNCHANGED <<initialized, sourceSubs, unsubAt>>
  /\ bootFrame

\* `defer s.sourceSubsMutex.Unlock()`: the field is read again for the
\* deferred call.
SubscribeDefer(n, id) ==
  /\ bootAt(id, "defer")
  /\ boot' = [boot EXCEPT !.reqs[id].unlocks = boot.sourceSubsMutex,
                          !.reqs[id].pc = "write"]
  /\ UNCHANGED <<initialized, sourceSubs, unsubAt>>
  /\ bootFrame

\* The rest of Server.Subscribe: the write of s.sourceSubs and the deferred
\* Unlock, which stops the process when its mutex is not locked.
SubscribeWrite(n, id, source) ==
  /\ bootAt(id, "write")
  /\ sourceSubs' = [sourceSubs EXCEPT ![n] = subscribe(@, source, id)]
  /\ unsubAt' = [unsubAt EXCEPT ![n] = MapDel(@, <<id, source>>)]
  /\ boot' = [boot EXCEPT
                !.locked = @ \ {boot.reqs[id].unlocks},
                !.reqs[id].pc =
                  IF boot.reqs[id].unlocks \in boot.locked
                  THEN "returned" ELSE "fatal"]
  /\ UNCHANGED initialized
  /\ bootFrame

\* ------------------------------------------------------------- publisher

\* pb.Update{Source, Key, Value} built by Server.publish.  idx is not part of
\* the message: it names the log entry whose goroutine sends it.
Update(g) ==
  [idx |-> g.idx, source |-> g.source, key |-> g.key, value |-> g.value]

\* Server.publish: s.sourceSubsMutex.Lock() and the start of the range loop
\* over s.sourceSubs[source], in one of the orders the map may be visited.
PublishLockSource(n, g) ==
  /\ g \in DOMAIN pubs[n]
  /\ pubs[n][g].pc = "publish"
  /\ sourceSubsMutex[n] = Free
  /\ sourceSubsMutex' = [sourceSubsMutex EXCEPT ![n] = <<"publish", g>>]
  /\ \E o \in Orders(SourceSubscribers(n, pubs[n][g].source)) :
       pubs' = [pubs EXCEPT ![n][g].pc = "notifySource", ![n][g].todo = o]
  /\ UNCHANGED <<initialized, sessions, sourceSubs, keySubs, sessionsMutex,
                 keySubsMutex, connects, listens>>
  /\ UNCHANGED storeVars
  /\ UNCHANGED <<proxy, calls, unsubAt, client, boot>>

\* A notify that finds no stream for any identifier.
notifyStreamNone(n, identifier) == NoListener

\* The stream notify would send on for identifier: s.sessions[identifier]
\* with a Listener that is not nil (read without sessionsMutex), or NoListener.
notifyStream(n, identifier) ==
  IF identifier \in DOMAIN sessions[n] THEN sessions[n][identifier]
  ELSE NoListener

\* A range loop of publish that ends at the first Send that fails.
PublishNotifyStopsAtError(n, g) ==
  /\ g \in DOMAIN pubs[n]
  /\ pubs[n][g].pc \in {"notifySource", "notifyKey"}
  /\ pubs[n][g].todo # <<>>
  /\ LET l == notifyStream(n, Head(pubs[n][g].todo))
     IN  IF l = NoListener
         THEN /\ pubs' = [pubs EXCEPT ![n][g].todo = Tail(@)]
              /\ UNCHANGED listens
         ELSE /\ ~listens[n][l].stalled \/ listens[n][l].ctx = "done"
              /\ IF listens[n][l].ctx = "done"
                 THEN /\ pubs' = [pubs EXCEPT ![n][g].todo = <<>>,
                                              ![n][g].errs = @ + 1]
                      /\ UNCHANGED listens
                 ELSE /\ pubs' = [pubs EXCEPT ![n][g].todo = Tail(@)]
                      /\ listens' = [listens EXCEPT
                                       ![n][l].recv =
                                         Append(@, Update(pubs[n][g])),
                                       ![n][l].via =
                                         Append(@, pubs[n][g].pc)]
  /\ UNCHANGED <<initialized, sessions, sourceSubs, keySubs, sessionsMutex,
                 sourceSubsMutex, keySubsMutex, connects>>
  /\ UNCHANGED storeVars
  /\ UNCHANGED <<proxy, calls, unsubAt, client, boot>>

\* Another goroutine is inside the critical section of addSession on node
\* n: it holds sessionsMutex and writes s.sessions.
RegistryWriter(n) == sessionsMutex[n][1] = "listen"

\* What the read of s.sessions[identifier] in notify can give.  notify takes
\* no lock, so the read can overlap the write of a goroutine that is inside
\* addSession: for the identifier being written the read gives the entry as
\* it was or as it will be.
notifyOutcomes(n, identifier) ==
  {notifyStream(n, identifier)} \cup
    {l \in DOMAIN listens[n] :
       /\ sessionsMutex[n] = <<"listen", l>>
       /\ listens[n][l].session = identifier}

\* One iteration of a range loop of Server.publish: notify(identifier,
\* update) for the next identifier.  stream.Listener.Send suspends while the
\* stream is stalled and its context is open; it fails once the context is
\* done; otherwise the update is sent.  When the unlocked read of s.sessions
\* overlaps a write of the map, the Go runtime may also stop the process with
\* "concurrent map read and map write" (pc "fatal").
PublishNotify(n, g) ==
  /\ g \in DOMAIN pubs[n]
  /\ pubs[n][g].pc \in {"notifySource", "notifyKey"}
  /\ pubs[n][g].todo # <<>>
  /\ \/ /\ RegistryWriter(n)
        /\ pubs' = [pubs EXCEPT ![n][g].pc = "fatal"]
        /\ UNCHANGED listens
     \/ \E l \in notifyOutcomes(n, Head(pubs[n][g].todo)) :
          IF l = NoListener
          THEN /\ pubs' = [pubs EXCEPT ![n][g].todo = Tail(@)]
               /\ UNCHANGED listens
          ELSE /\ ~listens[n][l].stalled \/ listens[n][l].ctx = "done"
               /\ IF listens[n][l].ctx = "done"
                  THEN /\ pubs' = [pubs EXCEPT ![n][g].todo = Tail(@),
                                               ![n][g].errs = @ + 1]
                       /\ UNCHANGED listens
                  ELSE /\ pubs' = [pubs EXCEPT ![n][g].todo = Tail(@)]
                       /\ listens' = [listens EXCEPT
                                        ![n][l].recv =
                                          Append(@, Update(pubs[n][g])),
                                        ![n][l].via =
                                          Append(@, pubs[n][g].pc)]
  /\ UNCHANGED <<initialized, sessions, sourceSubs, keySubs, sessionsMutex,
                 sourceSubsMutex, keySubsMutex, connects>>
  /\ UNCHANGED storeVars
  /\ UNCHANGED <<proxy, calls, unsubAt, client, boot>>

\* Server.publish: the first loop is over, s.sourceSubsMutex.Unlock().
PublishUnlockSource(n, g) ==
  /\ g \in DOMAIN pubs[n]
  /\ pubs[n][g].pc = "notifySource"
  /\ pubs[n][g].todo = <<>>
  /\ sourceSubsMutex' = [sourceSubsMutex EXCEPT ![n] = Free]
  /\ pubs' = [pubs EXCEPT ![n][g].pc = "lockKey"]
  /\ UNCHANGED <<initialized, sessions, sourceSubs, keySubs, sessionsMutex,
                 keySubsMutex, connects, listens>>
  /\ UNCHANGED storeVars
  /\ UNCHANGED <<proxy, calls, unsubAt, client, boot>>

\* Server.publish: s.keySubsMutex.Lock() and the start of the range loop over
\* s.keySubs[source][key].
PublishLockKey(n, g) ==
  /\ g \in DOMAIN pubs[n]
  /\ pubs[n][g].pc = "lockKey"
  /\ keySubsMutex[n] = Free
  /\ keySubsMutex' = [keySubsMutex EXCEPT ![n] = <<"publish", g>>]
  /\ \E o \in Orders(KeySubscribers(n, pubs[n][g].source, pubs[n][g].key)) :
       pubs' = [pubs EXCEPT ![n][g].pc = "notifyKey", ![n][g].todo = o]
  /\ UNCHANGED <<initialized, sessions, sourceSubs, keySubs, sessionsMutex,
                 sourceSubsMutex, connects, listens>>
  /\ UNCHANGED storeVars
  /\ UNCHANGED <<proxy, calls, unsubAt, client, boot>>

\* Server.publish: the second loop is over, s.keySubsMutex.Unlock(), return.
PublishUnlockKey(n, g) ==
  /\ g \in DOMAIN pubs[n]
  /\ pubs[n][g].pc = "notifyKey"
  /\ pubs[n][g].todo = <<>>
  /\ keySubsMutex' = [keySubsMutex EXCEPT ![n] = Free]
  /\ pubs' = [pubs EXCEPT ![n][g].pc = "done"]
  /\ UNCHANGED <<initialized, sessions, sourceSubs, keySubs, sessionsMutex,
                 sourceSubsMutex, connects, listens>>
  /\ UNCHANGED storeVars
  /\ UNCHANGED <<proxy, calls, unsubAt, client, boot>>

\* The client of stream l stops reading: the next Send on it suspends.
StreamStall(n, l) ==
  /\ l \in DOMAIN listens[n]
  /\ listens[n][l].ctx = "open"
  /\ ~listens[n][l].stalled
  /\ listens' = [listens EXCEPT ![n][l].stalled = TRUE]
  /\ UNCHANGED <<initialized, sessions, sourceSubs, keySubs, sessionsMutex,
                 sourceSubsMutex, keySubsMutex, connects, pubs>>
  /\ UNCHANGED storeVars
  /\ UNCHANGED <<proxy, calls, unsubAt, client, boot>>

\* The client of stream l reads again.
StreamResume(n, l) ==
  /\ l \in DOMAIN listens[n]
  /\ listens[n][l].stalled
  /\ listens' = [listens EXCEPT ![n][l].stalled = FALSE]
  /\ UNCHANGED <<initialized, sessions, sourceSubs, keySubs, sessionsMutex,
                 sourceSubsMutex, keySubsMutex, connects, pubs>>
  /\ UNCHANGED storeVars
  /\ UNCHANGED <<proxy, calls, unsubAt, client, boot>>

\* ------------------------------------------------------------------ init

\* NewStore and the zero Server on every node; n1 was started as leader.
Constructed ==
  /\ leader = "n1"
  /\ log = <<>>
  /\ applied = [n \in Nodes |-> 0]
  /\ storage = [n \in Nodes |-> EmptyMap]
  /\ pubs = [n \in Nodes |-> <<>>]
  /\ initialized = [n \in Nodes |-> FALSE]
  /\ sessions = [n \in Nodes |-> EmptyMap]
  /\ sourceSubs = [n \in Nodes |-> EmptyMap]
  /\ keySubs = [n \in Nodes |-> EmptyMap]
  /\ sessionsMutex = [n \in Nodes |-> Free]
  /\ sourceSubsMutex = [n \in Nodes |-> Free]
  /\ keySubsMutex = [n \in Nodes |-> Free]
  /\ connects = [n \in Nodes |-> <<>>]
  /\ listens = [n \in Nodes |-> <<>>]
  /\ mu = [n \in Nodes |-> Free]
  /\ snapshots = <<>>
  /\ reads = [n \in Nodes |-> <<>>]
  /\ peers = {}
  /\ calls = <<>>
  /\ unsubAt = [n \in Nodes |-> EmptyMap]
  /\ client = NewClient
  /\ boot = ZeroServer

\* The servers built as `&transport.Server{Store: store, Proxy: ...}`.
Init ==
  /\ Constructed
  /\ proxy = [n \in Nodes |-> TRUE]

\* The servers built as `&transport.Server{Store: store}`: no Proxy.
InitNoProxy ==
  /\ Constructed
  /\ proxy = [n \in Nodes |-> FALSE]

\* ----------------------------------------------- the store of one node

\* One node, no server attached: commands are committed and applied.
NextFSM ==
  \/ \E s \in Sources, k \in Keys, v \in Values : StoreSet("n1", s, k, v)
  \/ \E s \in Sources, k \in Keys : StoreDeleteKey("n1", s, k)
  \/ \E s \in Sources : StoreDeleteSource("n1", s)
  \/ FsmApply("n1")
  \/ \E g \in DOMAIN pubs["n1"] : PublishCallback("n1", g)

SpecFSM == Init /\ [][NextFSM]_vars

\* The entries fsm.Apply has no case for: an operation tag that is none of
\* the three, and bytes that do not decode.
ForeignEntries ==
  {marshal(command("testFSMBadCommand", "colors", "primary", "red")),
   Undecodable}

\* The log of the leader n1 and the follower n2 holds SETs and DELETE_KEYs of
\* colors/primary among entries that fsm.Apply has no case for.
NextForeign ==
  \/ Len(calls) < MaxCalls /\ StoreSet("n1", "colors", "primary", "red")
  \/ Len(calls) < MaxCalls /\ StoreDeleteKey("n1", "colors", "primary")
  \/ \E data \in ForeignEntries : RaftCommitForeign(data)
  \/ \E n \in Opened : FsmApply(n)
  \/ \E n \in Opened : \E g \in DOMAIN pubs[n] : PublishCallback(n, g)

\* raft hands every committed entry to the FSM: the apply loop of each node
\* runs while an entry is waiting.
SpecForeign ==
  /\ Init
  /\ [][NextForeign]_vars
  /\ \A n \in Opened : WF_vars(FsmApply(n))

\* ------------------------------------------------ one node with its server

\* The leader n1 serves clients: sessions connect, listen and subscribe to
\* source "colors" or to its key "primary" while SETs on "colors" are
\* committed, applied and published.
Next ==
  \/ \E id \in SessionIDs :
       Len(connects["n1"]) < MaxClients /\ ConnectGenerate("n1", id)
  \/ \E c \in DOMAIN connects["n1"] : ConnectAdd("n1", c)
  \/ \E id \in SessionIDs :
       Len(listens["n1"]) < MaxClients /\ Listen("n1", id)
  \/ \E id \in SessionIDs : Subscribe("n1", id, "colors")
  \/ \E id \in SessionIDs : SubscribeKey("n1", id, "colors", "primary")
  \/ \E k \in Keys : Len(log) < MaxWrites /\ StoreSet("n1", "colors", k, "red")
  \/ FsmApply("n1")
  \/ \E g \in DOMAIN pubs["n1"] : PublishCallback("n1", g)
  \/ \E g \in DOMAIN pubs["n1"] : PublishLockSource("n1", g)
  \/ \E g \in DOMAIN pubs["n1"] : PublishNotify("n1", g)
  \/ \E g \in DOMAIN pubs["n1"] : PublishUnlockSource("n1", g)
  \/ \E g \in DOMAIN pubs["n1"] : PublishLockKey("n1", g)
  \/ \E g \in DOMAIN pubs["n1"] : PublishUnlockKey("n1", g)

Spec == Init /\ [][Next]_vars

\* ------------------------------------------------ the sessions of a server

\* Clients connect, listen, subscribe and leave; nothing is written.
NextSessions ==
  \/ \E id \in SessionIDs :
       Len(connects["n1"]) < MaxConnect /\ ConnectGenerate("n1", id)
  \/ \E c \in DOMAIN connects["n1"] : ConnectAdd("n1", c)
  \/ \E id \in SessionIDs :
       Len(listens["n1"]) < MaxListen /\ Listen("n1", id)
  \/ \E l \in DOMAIN listens["n1"] : ListenContextDone("n1", l)
  \/ \E l \in DOMAIN listens["n1"] : RemoveSessionSource("n1", l)
  \/ \E l \in DOMAIN listens["n1"] : RemoveSessionKey("n1", l)
  \/ \E l \in DOMAIN listens["n1"] : RemoveSessionSession("n1", l)
  \/ \E id \in SessionIDs, s \in Sources : Subscribe("n1", id, s)
  \/ \E id \in SessionIDs : SubscribeKey("n1", id, "colors", "primary")

SpecSessions == Init /\ [][NextSessions]_vars

\* The Go scheduler runs the goroutine of every Connect call that can take
\* its next step.
SpecConnect ==
  /\ Init
  /\ [][NextSessions]_vars
  /\ \A c \in 1..MaxConnect : WF_vars(ConnectAdd("n1", c))

\* --------------------------------------------- a server with slow clients

\* Sessions listen and subscribe to "colors"; a client may stop reading its
\* stream and start again; SETs of colors/primary are committed, applied and
\* published.
NextStall ==
  \/ \E id \in SessionIDs :
       Len(listens["n1"]) < MaxListen /\ Listen("n1", id)
  \/ \E id \in SessionIDs : Subscribe("n1", id, "colors")
  \/ Len(log) < MaxWrites /\ StoreSet("n1", "colors", "primary", "red")
  \/ FsmApply("n1")
  \/ \E g \in DOMAIN pubs["n1"] : PublishCallback("n1", g)
  \/ \E g \in DOMAIN pubs["n1"] : PublishLockSource("n1", g)
  \/ \E g \in DOMAIN pubs["n1"] : PublishNotify("n1", g)
  \/ \E g \in DOMAIN pubs["n1"] : PublishUnlockSource("n1", g)
  \/ \E g \in DOMAIN pubs["n1"] : PublishLockKey("n1", g)
  \/ \E g \in DOMAIN pubs["n1"] : PublishUnlockKey("n1", g)
  \/ \E l \in DOMAIN listens["n1"] : StreamStall("n1", l)
  \/ \E l \in DOMAIN listens["n1"] : StreamResume("n1", l)

\* The steps of publish goroutine g of node n.
PublisherOf(n, g) ==
  \/ PublishCallback(n, g)
  \/ PublishLockSource(n, g)
  \/ PublishNotify(n, g)
  \/ PublishUnlockSource(n, g)
  \/ PublishLockKey(n, g)
  \/ PublishUnlockKey(n, g)

\* The Go scheduler runs every goroutine that stays runnable: the FSM's apply
\* loop and each publish goroutine.  Nothing obliges a client to read.
SpecStall ==
  /\ Init
  /\ [][NextStall]_vars
  /\ WF_vars(FsmApply("n1"))
  /\ \A g \in 1..MaxWrites : WF_vars(PublisherOf("n1", g))

\* ------------------------------------------------- two replicas of the store

\* The leader n1 commits commands; each node's FSM applies the log at its own
\* pace.  The goroutines Apply starts touch no storage and are left unscheduled.
NextReplicas ==
  \/ \E s \in Sources, k \in Keys, v \in Values : StoreSet("n1", s, k, v)
  \/ \E s \in Sources, k \in Keys : StoreDeleteKey("n1", s, k)
  \/ \E s \in Sources : StoreDeleteSource("n1", s)
  \/ \E n \in Nodes : FsmApply(n)

SpecReplicas == Init /\ [][NextReplicas]_vars

\* ----------------------------------- reads next to Apply, Snapshot, Restore

\* The leader n1 commits SETs and a DELETE_SOURCE on "colors" and takes
\* snapshots; the follower n2 applies the log or restores a snapshot while
\* it serves calls of GetSources, GetKeys and Get.
NextReads ==
  \/ \E k \in Keys : StoreSet("n1", "colors", k, "red")
  \/ StoreDeleteSource("n1", "colors")
  \/ \E n \in Opened : FsmApply(n)
  \/ Len(snapshots) < MaxSnapshots /\ Snapshot("n1")
  \/ \E i \in DOMAIN snapshots : Persist(i)
  \/ \E i \in DOMAIN snapshots : Restore("n2", i)
  \/ Len(reads["n2"]) < MaxReads /\ GetSourcesLock("n2")
  \/ Len(reads["n2"]) < MaxReads /\ GetKeysLock("n2", "colors")
  \/ Len(reads["n2"]) < MaxReads /\ GetLock("n2", "colors", "primary")
  \/ \E r \in DOMAIN reads["n2"] : RangeNext("n2", r)
  \/ \E r \in DOMAIN reads["n2"] : RangeEnd("n2", r)
  \/ \E r \in DOMAIN reads["n2"] : GetIndex("n2", r)

SpecReads == Init /\ [][NextReads]_vars

\* Clients of the leader n1 and of the follower n2, which has a proxy:
\* writes and reads of one key, each handler step by
\* step, and the FSMs of both nodes applying the log.
NextRouting ==
  \/ /\ Len(calls) < MaxCalls
     /\ \E n \in Opened : \E v \in Values :
          SetValue(n, "AA", "colors", "primary", v)
  \/ /\ Len(calls) < MaxCalls
     /\ \E n \in Opened : GetValue(n, "AA", "colors", "primary")
  \/ /\ Len(calls) < MaxCalls
     /\ \E n \in Opened : RemoveValue(n, "AA", "colors", "primary")
  \/ /\ Len(calls) < MaxCalls
     /\ \E n \in Opened : RemoveSource(n, "AA", "colors")
  \/ /\ Len(calls) < MaxCalls
     /\ \E n \in Opened : ServerGetKeys(n, "AA", "colors")
  \/ /\ Len(calls) < MaxCalls
     /\ \E n \in Opened : ServerGetSources(n, "AA")
  \/ \E c \in DOMAIN calls : \E id \in SessionIDs : ProxyDial(c, id)
  \/ \E c \in DOMAIN calls : ProxyDialFail(c)
  \/ \E c \in DOMAIN calls : ProxyForward(c)
  \/ \E c \in DOMAIN calls : Committed(c)
  \/ \E c \in DOMAIN calls : ProxyReply(c)
  \/ \E n \in Opened : FsmApply(n)

SpecRouting == Init /\ [][NextRouting]_vars

\* Clients send SetValue and GetValue of colors/primary to n1 and n2, both
\* with a proxy, while the raft library moves leadership between the two.
NextLeaderChange ==
  \/ /\ Len(calls) < MaxCalls
     /\ \E n \in Opened : SetValue(n, "AA", "colors", "primary", "red")
  \/ /\ Len(calls) < MaxCalls
     /\ \E n \in Opened : GetValue(n, "AA", "colors", "primary")
  \/ LeaderChange
  \/ \E c \in DOMAIN calls : \E id \in SessionIDs : ProxyDial(c, id)
  \/ \E c \in DOMAIN calls : ProxyDialFail(c)
  \/ \E c \in DOMAIN calls : ProxyForward(c)
  \/ \E c \in DOMAIN calls : Committed(c)
  \/ \E c \in DOMAIN calls : ProxyReply(c)
  \/ \E n \in Opened : FsmApply(n)

SpecLeaderChange == Init /\ [][NextLeaderChange]_vars

\* Sessions AA and BB each send a Subscribe as the first requests the Server
\* of n1 receives, each handler goroutine running one statement at a time.
NextFirstRequests ==
  \/ \E id \in SessionIDs : InitializeCheck("n1", id)
  \/ \E id \in SessionIDs : InitializeFlag("n1", id)
  \/ \E id \in SessionIDs : InitializeSessionsMutex("n1", id)
  \/ \E id \in SessionIDs : InitializeSourceSubsMutex("n1", id)
  \/ \E id \in SessionIDs : InitializeKeySubsMutex("n1", id)
  \/ \E id \in SessionIDs : SubscribeLock("n1", id)
  \/ \E id \in SessionIDs : SubscribeDefer("n1", id)
  \/ \E id \in SessionIDs : \E s \in Sources : SubscribeWrite("n1", id, s)

SpecFirstRequests == Init /\ [][NextFirstRequests]_vars

\* Clients of the leader n1 and of the follower n2 send writes and reads, some
\* with an empty source or an empty key.
NextValidation ==
  \/ /\ Len(calls) < MaxCalls
     /\ \E n \in Opened : \E s \in {"colors", ""} : \E k \in {"primary", ""} :
          SetValue(n, "AA", s, k, "red")
  \/ /\ Len(calls) < MaxCalls
     /\ \E n \in Opened : \E s \in {"colors", ""} : \E k \in {"primary", ""} :
          GetValue(n, "AA", s, k)
  \/ /\ Len(calls) < MaxCalls
     /\ \E n \in Opened : \E s \in {"colors", ""} : \E k \in {"primary", ""} :
          RemoveValue(n, "AA", s, k)
  \/ /\ Len(calls) < MaxCalls
     /\ \E n \in Opened : \E s \in {"colors", ""} : RemoveSource(n, "AA", s)
  \/ \E c \in DOMAIN calls : \E id \in SessionIDs : ProxyDial(c, id)
  \/ \E c \in DOMAIN calls : ProxyDialFail(c)
  \/ \E c \in DOMAIN calls : ProxyForward(c)
  \/ \E c \in DOMAIN calls : Committed(c)
  \/ \E c \in DOMAIN calls : ProxyReply(c)
  \/ \E n \in Opened : FsmApply(n)

SpecValidation == Init /\ [][NextValidation]_vars

\* Clients that set, remove and get one key through the leader n1 and through
\* the follower n2, which proxies.
NextReadYourWrites ==
  \/ /\ Cardinality(Received) < MaxCalls
     /\ \E n \in Opened : \E v \in Values :
          SetValue(n, "AA", "colors", "primary", v)
  \/ /\ Cardinality(Received) < MaxCalls
     /\ \E n \in Opened : GetValue(n, "AA", "colors", "primary")
  \/ /\ Cardinality(Received) < MaxCalls
     /\ \E n \in Opened : RemoveValue(n, "AA", "colors", "primary")
  \/ \E c \in DOMAIN calls : \E id \in SessionIDs : ProxyDial(c, id)
  \/ \E c \in DOMAIN calls : ProxyDialFail(c)
  \/ \E c \in DOMAIN calls : ProxyForward(c)
  \/ \E c \in DOMAIN calls : Committed(c)
  \/ \E c \in DOMAIN calls : ProxyReply(c)
  \/ \E n \in Opened : FsmApply(n)

SpecReadYourWrites == Init /\ [][NextReadYourWrites]_vars

\* Servers without a Proxy: writes and joins sent to the leader n1, to the
\* follower n2 and to n3, whose store was never opened.
NextNoProxy ==
  \/ /\ Cardinality(Received) < MaxCalls
     /\ \E n \in Nodes : \E v \in Values :
          SetValue(n, "AA", "colors", "primary", v)
  \/ /\ Cardinality(Received) < MaxCalls
     /\ \E n \in Nodes : RemoveValue(n, "AA", "colors", "primary")
  \/ /\ Cardinality(Received) < MaxCalls
     /\ \E n \in Nodes : RemoveSource(n, "AA", "colors")
  \/ /\ Cardinality(Received) < MaxCalls
     /\ \E n \in Nodes : \E a \in Addresses : Join(n, a)
  \/ \E c \in DOMAIN calls : Committed(c)
  \/ \E n \in Opened : FsmApply(n)

SpecNoProxy == InitNoProxy /\ [][NextNoProxy]_vars

\* Callers of the Store's own API on the leader n1, on the follower n2 and on
\* n3, whose store was never opened.
NextStoreAPI ==
  \/ /\ Len(calls) < MaxCalls
     /\ \E n \in Nodes : \E v \in Values :
          StoreSet(n, "colors", "primary", v)
  \/ /\ Len(calls) < MaxCalls
     /\ \E n \in Nodes : StoreDeleteKey(n, "colors", "primary")
  \/ /\ Len(calls) < MaxCalls
     /\ \E n \in Nodes : StoreDeleteSource(n, "colors")
  \/ /\ Len(calls) < MaxCalls
     /\ \E n \in Nodes : \E a \in Addresses : StoreJoin(n, a)
  \/ \E n \in Opened : FsmApply(n)

SpecStoreAPI == Init /\ [][NextStoreAPI]_vars

\* Nodes are joined through Store.Join, called on the leader n1, on the
\* follower n2 and on n3.
NextJoin ==
  /\ Len(calls) < MaxJoins
  /\ \E n \in Nodes : \E a \in Addresses : StoreJoin(n, a)

SpecJoin == Init /\ [][NextJoin]_vars

\* The leader n1 writes and deletes keys of one source and takes snapshots;
\* raft installs a persisted snapshot on the follower n2 when n2 is behind it.
NextSnapshot ==
  \/ StoreSet("n1", "colors", "primary", "red")
  \/ StoreSet("n1", "colors", "primary", NilValue)
  \/ StoreSet("n1", "colors", "secondary", "red")
  \/ StoreDeleteKey("n1", "colors", "primary")
  \/ StoreDeleteSource("n1", "colors")
  \/ \E n \in Opened : FsmApply(n)
  \/ Len(snapshots) < MaxSnapshots /\ Snapshot("n1")
  \/ \E i \in DOMAIN snapshots : Persist(i)
  \/ \E i \in DOMAIN snapshots : Restore("n2", i)

SpecSnapshot == Init /\ [][NextSnapshot]_vars

\* Each session attaches its one Listen stream to the leader n1, as
\* api.NewClient does, and subscribes to keys of "colors", BB also to the
\* source; SETs of both keys of "colors" and of a key of another source are
\* committed, applied and published.
NextKeySubscriptions ==
  \/ \E id \in SessionIDs :
       id \notin DOMAIN sessions["n1"] /\ Listen("n1", id)
  \/ \E id \in SessionIDs : \E k \in Keys :
       SubscribeKey("n1", id, "colors", k)
  \/ Subscribe("n1", "BB", "colors")
  \/ \E k \in Keys :
       Len(log) < MaxWrites /\ StoreSet("n1", "colors", k, "red")
  \/ Len(log) < MaxWrites /\ StoreSet("n1", "AA", "primary", "red")
  \/ FsmApply("n1")
  \/ \E g \in DOMAIN pubs["n1"] : PublishCallback("n1", g)
  \/ \E g \in DOMAIN pubs["n1"] : PublishLockSource("n1", g)
  \/ \E g \in DOMAIN pubs["n1"] : PublishNotify("n1", g)
  \/ \E g \in DOMAIN pubs["n1"] : PublishUnlockSource("n1", g)
  \/ \E g \in DOMAIN pubs["n1"] : PublishLockKey("n1", g)
  \/ \E g \in DOMAIN pubs["n1"] : PublishUnlockKey("n1", g)

SpecKeySubscriptions == Init /\ [][NextKeySubscriptions]_vars

\* Each session attaches its one Listen stream to the leader n1 and
\* subscribes to the source "colors", BB also to the source "AA"; SETs of a
\* key of each source are committed, applied and published.  Every client
\* reads its stream and none leaves.
NextSourceSubscriptions ==
  \/ \E id \in SessionIDs :
       id \notin DOMAIN sessions["n1"] /\ Listen("n1", id)
  \/ \E id \in SessionIDs : Subscribe("n1", id, "colors")
  \/ Subscribe("n1", "BB", "AA")
  \/ \E s \in Sources : \E v \in Values :
       Len(log) < MaxWrites /\ StoreSet("n1", s, "primary", v)
  \/ FsmApply("n1")
  \/ \E g \in DOMAIN pubs["n1"] : PublishCallback("n1", g)
  \/ \E g \in DOMAIN pubs["n1"] : PublishLockSource("n1", g)
  \/ \E g \in DOMAIN pubs["n1"] : PublishNotify("n1", g)
  \/ \E g \in DOMAIN pubs["n1"] : PublishUnlockSource("n1", g)
  \/ \E g \in DOMAIN pubs["n1"] : PublishLockKey("n1", g)
  \/ \E g \in DOMAIN pubs["n1"] : PublishUnlockKey("n1", g)

\* The Go scheduler runs every goroutine that stays runnable: the FSM's apply
\* loop and each publish goroutine.
SpecSourceSubscriptions ==
  /\ Init
  /\ [][NextSourceSubscriptions]_vars
  /\ WF_vars(FsmApply("n1"))
  /\ \A g \in 1..MaxWrites : WF_vars(PublisherOf("n1", g))

\* Session AA attaches its Listen stream to the leader n1, subscribes to the
\* source "colors" and to its key "primary" and unsubscribes again, any number
\* of times, while SETs of colors/primary are committed, applied and published.
NextUnsubscribe ==
  \/ "AA" \notin DOMAIN sessions["n1"] /\ Listen("n1", "AA")
  \/ Subscribe("n1", "AA", "colors")
  \/ Unsubscribe("n1", "AA", "colors")
  \/ SubscribeKey("n1", "AA", "colors", "primary")
  \/ UnsubscribeKey("n1", "AA", "colors", "primary")
  \/ Len(log) < MaxWrites /\ StoreSet("n1", "colors", "primary", "red")
  \/ FsmApply("n1")
  \/ \E g \in DOMAIN pubs["n1"] : PublishCallback("n1", g)
  \/ \E g \in DOMAIN pubs["n1"] : PublishLockSource("n1", g)
  \/ \E g \in DOMAIN pubs["n1"] : PublishNotify("n1", g)
  \/ \E g \in DOMAIN pubs["n1"] : PublishUnlockSource("n1", g)
  \/ \E g \in DOMAIN pubs["n1"] : PublishLockKey("n1", g)
  \/ \E g \in DOMAIN pubs["n1"] : PublishUnlockKey("n1", g)

SpecUnsubscribe == Init /\ [][NextUnsubscribe]_vars

\* Sessions subscribe to and unsubscribe from both sources and the key
\* "primary" of each, in any order and any number of times.
NextSubscriptions ==
  \/ \E id \in SessionIDs : \E s \in Sources : Subscribe("n1", id, s)
  \/ \E id \in SessionIDs : \E s \in Sources : Unsubscribe("n1", id, s)
  \/ \E id \in SessionIDs : \E s \in Sources :
       SubscribeKey("n1", id, s, "primary")
  \/ \E id \in SessionIDs : \E s \in Sources :
       UnsubscribeKey("n1", id, s, "primary")

SpecSubscriptions == Init /\ [][NextSubscriptions]_vars

\* One client connects to the leader n1 and is given AA, subscribes to
\* "colors" while its session has no stream yet, and then attaches its Listen
\* stream; SETs of colors/primary are committed, applied and published all
\* along.
NextSubscribeFirst ==
  \/ connects["n1"] = <<>> /\ ConnectGenerate("n1", "AA")
  \/ \E c \in DOMAIN connects["n1"] : ConnectAdd("n1", c)
  \/ /\ "AA" \in DOMAIN sessions["n1"]
     /\ sessions["n1"]["AA"] = NoListener
     /\ Subscribe("n1", "AA", "colors")
  \/ /\ "AA" \in DOMAIN sessions["n1"]
     /\ sessions["n1"]["AA"] = NoListener
     /\ Listen("n1", "AA")
  \/ Len(log) < MaxWrites /\ StoreSet("n1", "colors", "primary", "red")
  \/ FsmApply("n1")
  \/ \E g \in DOMAIN pubs["n1"] : PublishCallback("n1", g)
  \/ \E g \in DOMAIN pubs["n1"] : PublishLockSource("n1", g)
  \/ \E g \in DOMAIN pubs["n1"] : PublishNotify("n1", g)
  \/ \E g \in DOMAIN pubs["n1"] : PublishUnlockSource("n1", g)
  \/ \E g \in DOMAIN pubs["n1"] : PublishLockKey("n1", g)
  \/ \E g \in DOMAIN pubs["n1"] : PublishUnlockKey("n1", g)

\* The Go scheduler runs the FSM's apply loop and each publish goroutine.
SpecSubscribeFirst ==
  /\ Init
  /\ [][NextSubscribeFirst]_vars
  /\ WF_vars(FsmApply("n1"))
  /\ \A g \in 1..MaxWrites : WF_vars(PublisherOf("n1", g))

\* Session id has never called Listen on n1.
NeverListened(id) ==
  \A l \in DOMAIN listens["n1"] : listens["n1"][l].session # id

\* Sessions AA and BB each attach one Listen stream to the leader n1 and
\* subscribe to "colors", BB also to its key "primary".  The client of AA may go
\* away: the context of its stream ends, Sends on it fail and removeSession
\* runs.  SETs of colors/primary are committed, applied and published.
NextSendFailure ==
  \/ \E id \in SessionIDs : NeverListened(id) /\ Listen("n1", id)
  \/ \E id \in SessionIDs : Subscribe("n1", id, "colors")
  \/ SubscribeKey("n1", "BB", "colors", "primary")
  \/ \E l \in DOMAIN listens["n1"] :
       listens["n1"][l].session = "AA" /\ ListenContextDone("n1", l)
  \/ \E l \in DOMAIN listens["n1"] : RemoveSessionSource("n1", l)
  \/ \E l \in DOMAIN listens["n1"] : RemoveSessionKey("n1", l)
  \/ \E l \in DOMAIN listens["n1"] : RemoveSessionSession("n1", l)
  \/ Len(log) < MaxWrites /\ StoreSet("n1", "colors", "primary", "red")
  \/ FsmApply("n1")
  \/ \E g \in DOMAIN pubs["n1"] : PublishCallback("n1", g)
  \/ \E g \in DOMAIN pubs["n1"] : PublishLockSource("n1", g)
  \/ \E g \in DOMAIN pubs["n1"] : PublishNotify("n1", g)
  \/ \E g \in DOMAIN pubs["n1"] : PublishUnlockSource("n1", g)
  \/ \E g \in DOMAIN pubs["n1"] : PublishLockKey("n1", g)
  \/ \E g \in DOMAIN pubs["n1"] : PublishUnlockKey("n1", g)

\* The Go scheduler runs the FSM's apply loop and each publish goroutine.
SpecSendFailure ==
  /\ Init
  /\ [][NextSendFailure]_vars
  /\ WF_vars(FsmApply("n1"))
  /\ \A g \in 1..MaxWrites : WF_vars(PublisherOf("n1", g))

\* Session AA attaches one Listen stream to the leader n1 and subscribes to
\* "colors"; its client may go away, after which Sends on its stream fail.
\* Writers call SetValue, RemoveValue and RemoveSource on the leader; the
\* entries are applied and published.
NextWriterAndFailure ==
  \/ NeverListened("AA") /\ Listen("n1", "AA")
  \/ Subscribe("n1", "AA", "colors")
  \/ \E l \in DOMAIN listens["n1"] : ListenContextDone("n1", l)
  \/ \E l \in DOMAIN listens["n1"] : RemoveSessionSource("n1", l)
  \/ \E l \in DOMAIN listens["n1"] : RemoveSessionKey("n1", l)
  \/ \E l \in DOMAIN listens["n1"] : RemoveSessionSession("n1", l)
  \/ /\ Cardinality(Received) < MaxCalls
     /\ SetValue("n1", "BB", "colors", "primary", "red")
  \/ /\ Cardinality(Received) < MaxCalls
     /\ RemoveValue("n1", "BB", "colors", "primary")
  \/ /\ Cardinality(Received) < MaxCalls
     /\ RemoveSource("n1", "BB", "colors")
  \/ \E c \in DOMAIN calls : Committed(c)
  \/ FsmApply("n1")
  \/ \E g \in DOMAIN pubs["n1"] : PublishCallback("n1", g)
  \/ \E g \in DOMAIN pubs["n1"] : PublishLockSource("n1", g)
  \/ \E g \in DOMAIN pubs["n1"] : PublishNotify("n1", g)
  \/ \E g \in DOMAIN pubs["n1"] : PublishUnlockSource("n1", g)
  \/ \E g \in DOMAIN pubs["n1"] : PublishLockKey("n1", g)
  \/ \E g \in DOMAIN pubs["n1"] : PublishUnlockKey("n1", g)

SpecWriterAndFailure == Init /\ [][NextWriterAndFailure]_vars

\* The process of node n runs: the Go runtime has not stopped it.
Running(n) == \A g \in DOMAIN pubs[n] : pubs[n][g].pc # "fatal"

\* Sessions attach their Listen stream to the leader n1, with addSession seen
\* one statement at a time, and subscribe to "colors" while SETs of
\* colors/primary are committed, applied and published.
NextRegistry ==
  \/ \E id \in SessionIDs :
       Running("n1") /\ NeverListened(id) /\ ListenLock("n1", id)
  \/ \E l \in DOMAIN listens["n1"] : Running("n1") /\ ListenAdd("n1", l)
  \/ \E id \in SessionIDs : Running("n1") /\ Subscribe("n1", id, "colors")
  \/ /\ Running("n1")
     /\ Len(log) < MaxWrites
     /\ StoreSet("n1", "colors", "primary", "red")
  \/ Running("n1") /\ FsmApply("n1")
  \/ \E g \in DOMAIN pubs["n1"] : Running("n1") /\ PublishCallback("n1", g)
  \/ \E g \in DOMAIN pubs["n1"] : Running("n1") /\ PublishLockSource("n1", g)
  \/ \E g \in DOMAIN pubs["n1"] : Running("n1") /\ PublishNotify("n1", g)
  \/ \E g \in DOMAIN pubs["n1"] :
       Running("n1") /\ PublishUnlockSource("n1", g)
  \/ \E g \in DOMAIN pubs["n1"] : Running("n1") /\ PublishLockKey("n1", g)
  \/ \E g \in DOMAIN pubs["n1"] : Running("n1") /\ PublishUnlockKey("n1", g)

SpecRegistry == Init /\ [][NextRegistry]_vars

\* Session AA attaches its Listen stream to the leader n1 and subscribes to
\* "colors"; SETs and DELETE_KEYs of colors/primary are committed, applied
\* and published.
NextNotifiedReader ==
  \/ NeverListened("AA") /\ Listen("n1", "AA")
  \/ Subscribe("n1", "AA", "colors")
  \/ \E v \in Values :
       Len(log) < MaxWrites /\ StoreSet("n1", "colors", "primary", v)
  \/ Len(log) < MaxWrites /\ StoreDeleteKey("n1", "colors", "primary")
  \/ FsmApply("n1")
  \/ \E g \in DOMAIN pubs["n1"] : PublishCallback("n1", g)
  \/ \E g \in DOMAIN pubs["n1"] : PublishLockSource("n1", g)
  \/ \E g \in DOMAIN pubs["n1"] : PublishNotify("n1", g)
  \/ \E g \in DOMAIN pubs["n1"] : PublishUnlockSource("n1", g)
  \/ \E g \in DOMAIN pubs["n1"] : PublishLockKey("n1", g)
  \/ \E g \in DOMAIN pubs["n1"] : PublishUnlockKey("n1", g)

SpecNotifiedReader == Init /\ [][NextNotifiedReader]_vars

\* The client of session AA, listening on n1, registers and removes handlers
\* for source "colors" and for colors/primary.
NextClient ==
  \/ NeverListened("AA") /\ Listen("n1", "AA")
  \/ \E h \in Handlers : ClientSubscribe("n1", "colors", h)
  \/ \E h \in Handlers : ClientUnsubscribe("n1", "colors", h)
  \/ \E h \in Handlers : ClientSubscribeKey("n1", "colors", "primary", h)
  \/ \E h \in Handlers : ClientUnsubscribeKey("n1", "colors", "primary", h)

SpecClient == Init /\ [][NextClient]_vars

\* Session AA attaches its Listen stream to the leader n1 and subscribes to
\* "colors"; its client may stop reading and start again; SETs of
\* colors/primary are committed, applied and published.
NextSlowSubscriber ==
  \/ NeverListened("AA") /\ Listen("n1", "AA")
  \/ Subscribe("n1", "AA", "colors")
  \/ Len(log) < MaxWrites /\ StoreSet("n1", "colors", "primary", "red")
  \/ FsmApply("n1")
  \/ \E g \in DOMAIN pubs["n1"] : PublishCallback("n1", g)
  \/ \E g \in DOMAIN pubs["n1"] : PublishLockSource("n1", g)
  \/ \E g \in DOMAIN pubs["n1"] : PublishNotify("n1", g)
  \/ \E g \in DOMAIN pubs["n1"] : PublishUnlockSource("n1", g)
  \/ \E g \in DOMAIN pubs["n1"] : PublishLockKey("n1", g)
  \/ \E g \in DOMAIN pubs["n1"] : PublishUnlockKey("n1", g)
  \/ \E l \in DOMAIN listens["n1"] : StreamStall("n1", l)
  \/ \E l \in DOMAIN listens["n1"] : StreamResume("n1", l)

\* The Go scheduler runs every goroutine that stays runnable: the FSM's apply
\* loop and each publish goroutine.  Nothing obliges the client to read.
SpecSlowSubscriber ==
  /\ Init
  /\ [][NextSlowSubscriber]_vars
  /\ WF_vars(FsmApply("n1"))
  /\ \A g \in 1..MaxWrites : WF_vars(PublisherOf("n1", g))

\* Session AA attaches its Listen stream to the follower n2 and subscribes to
\* "colors" there, while SETs of colors are committed through the leader n1
\* and applied by the FSM of each node.  No client ever called the server of
\* n1, so its PublishCallback is unset.
NextFollowerSubscriber ==
  \/ "AA" \notin DOMAIN sessions["n2"] /\ Listen("n2", "AA")
  \/ Subscribe("n2", "AA", "colors")
  \/ Len(log) < MaxWrites /\ StoreSet("n1", "colors", "primary", "red")
  \/ \E n \in Opened : FsmApply(n)
  \/ \E g \in DOMAIN pubs["n1"] : PublishCallback("n1", g)
  \/ \E g \in DOMAIN pubs["n2"] : PublishCallback("n2", g)
  \/ \E g \in DOMAIN pubs["n2"] : PublishLockSource("n2", g)
  \/ \E g \in DOMAIN pubs["n2"] : PublishNotify("n2", g)
  \/ \E g \in DOMAIN pubs["n2"] : PublishUnlockSource("n2", g)
  \/ \E g \in DOMAIN pubs["n2"] : PublishLockKey("n2", g)
  \/ \E g \in DOMAIN pubs["n2"] : PublishUnlockKey("n2", g)

\* The Go scheduler runs every goroutine that stays runnable: the apply loop
\* of the follower's FSM and each of its publish goroutines.
SpecFollowerSubscriber ==
  /\ Init
  /\ [][NextFollowerSubscriber]_vars
  /\ WF_vars(FsmApply("n2"))
  /\ \A g \in 1..MaxWrites : WF_vars(PublisherOf("n2", g))

\* ============================================================== properties

\* The step applies a log entry with operation op on node n.
Applies(n, op) ==
  /\ applied'[n] = applied[n] + 1
  /\ unmarshal(log[applied'[n]]).op = op

\* The command of log entry i.
Entry(i) == unmarshal(log[i])

\* The goroutines the step starts on node n.
Started(n) == SubSeq(pubs'[n], Len(pubs[n]) + 1, Len(pubs'[n]))

\* The value stored under (source, key) in map st, or "absent".
At(st, source, key) ==
  IF source \in DOMAIN st /\ key \in DOMAIN st[source]
  THEN <<"present", st[source][key]>>
  ELSE <<"absent">>

\* The number of times stream l of node n was sent the update of goroutine g.
Sends(n, l, g) ==
  Cardinality({i \in DOMAIN listens[n][l].recv :
                 listens[n][l].recv[i] = Update(pubs[n][g])})

\* C1: for every publish event, each session receives at most one Update on
\* its Listen stream, also when it is subscribed to the source and to the key.
C1_AtMostOneUpdatePerEvent ==
  \A n \in Nodes : \A l \in DOMAIN listens[n] : \A g \in DOMAIN pubs[n] :
    Sends(n, l, g) <= 1

\* C2: the Updates sent on one stream are in log order.
C2_StreamInLogOrder ==
  \A n \in Nodes : \A l \in DOMAIN listens[n] :
    \A i, j \in DOMAIN listens[n][l].recv :
      i < j => listens[n][l].recv[i].idx <= listens[n][l].recv[j].idx

\* Session id is a member of some set of the source subscriptions subs.
InSourceSubs(subs, id) == \E s \in DOMAIN subs : id \in subs[s]

\* Session id is a member of some set of the key subscriptions subs.
InKeySubs(subs, id) ==
  \E s \in DOMAIN subs : \E k \in DOMAIN subs[s] : id \in subs[s][k]

\* C3: removeSession(S) leaves S in no set of sourceSubs when its section
\* under sourceSubsMutex ends, in no set of keySubs when its section under
\* keySubsMutex ends, and out of the registry when it returns.
C3_DetachRemovesSession ==
  [][\A n \in Nodes : \A l \in DOMAIN listens[n] :
       LET S == listens[n][l].session
           from == listens[n][l].pc
           to == listens'[n][l].pc
       IN  /\ (from = "removeSource" /\ to = "removeKey")
                => ~InSourceSubs(sourceSubs'[n], S)
           /\ (from = "removeKey" /\ to = "removeSession")
                => ~InKeySubs(keySubs'[n], S)
           /\ (from = "removeSession" /\ to = "returned")
                => S \notin DOMAIN sessions'[n]]_vars

\* Goroutine g was just started for a source that the session of stream l is
\* subscribed to, and stream l is attached to that session and being read.
AwaitsUpdate(n, l, g) ==
  /\ g \in DOMAIN pubs[n]
  /\ l \in DOMAIN listens[n]
  /\ pubs[n][g].pc = "callback"
  /\ initialized[n]
  /\ notifyStream(n, listens[n][l].session) = l
  /\ listens[n][l].session \in SourceSubscribers(n, pubs[n][g].source)
  /\ ~listens[n][l].stalled

\* Stream l was sent the update of goroutine g, or its client stopped reading.
UpdatedOrStalled(n, l, g) ==
  /\ g \in DOMAIN pubs[n]
  /\ l \in DOMAIN listens[n]
  /\ (Sends(n, l, g) >= 1 \/ listens[n][l].stalled)

\* C4: a subscribed session whose client keeps reading eventually receives
\* the Update of every write, whatever the other sessions' clients do.
C4_OthersNotBlocked ==
  \A l \in 1..MaxListen : \A g \in 1..MaxWrites :
    AwaitsUpdate("n1", l, g) ~> UpdatedOrStalled("n1", l, g)

\* C5: no two Connect calls on one server return the same identifier.
C5_UniqueSessionIDs ==
  \A n \in Nodes : \A c, d \in Returned(n) :
    c # d => connects[n][c].session # connects[n][d].session

\* C6: every source in storage holds at least one key, so GetSources never
\* lists a source whose last key was deleted.
C6_NoEmptySource ==
  \A n \in Nodes : \A s \in GetSources(n) : GetKeys(n, s) # {}

\* C6 witness: DELETE_KEY removed the only key of "colors" and the source
\* is gone from GetSources.
C6_Witness ==
  /\ applied["n1"] = 2
  /\ Entry(1) = command(operationSet, "colors", "primary", "red")
  /\ Entry(2) = command(operationDeleteKey, "colors", "primary", NilValue)
  /\ "colors" \notin GetSources("n1")

C8_DeleteAbsentKey ==
  [][\A n \in Nodes :
       (/\ Applies(n, operationDeleteKey)
        /\ Entry(applied'[n]).key \notin GetKeys(n, Entry(applied'[n]).source))
       => /\ storage'[n] = storage[n]
          /\ pubs'[n] = pubs[n]
          /\ ~deleteKeyFound(storage[n], Entry(applied'[n]).source,
                             Entry(applied'[n]).key)]_vars

\* C8 witness: a DELETE_KEY of a missing key in an existing source and a
\* DELETE_KEY in a missing source were applied; only the SET published.
C8_Witness ==
  /\ applied["n1"] = 3
  /\ Entry(1) = command(operationSet, "colors", "primary", "red")
  /\ Entry(2) = command(operationDeleteKey, "colors", "secondary", NilValue)
  /\ Entry(3) = command(operationDeleteKey, "AA", "primary", NilValue)
  /\ Len(pubs["n1"]) = 1
  /\ Get("n1", "colors", "primary") = "red"

\* C9: applying DELETE_SOURCE(source) removes the whole source entry and
\* starts exactly one publish(source, k, nil) for each key k that was
\* present; for an absent source it starts none and leaves storage unchanged.
C9_DeleteSource ==
  [][\A n \in Nodes :
       Applies(n, operationDeleteSource)
       => LET src == Entry(applied'[n]).source
              keys == GetKeys(n, src)
              started == Started(n)
          IN  /\ src \notin DOMAIN storage'[n]
              /\ DOMAIN storage'[n] = (DOMAIN storage[n]) \ {src}
              /\ \A s \in DOMAIN storage'[n] : storage'[n][s] = storage[n][s]
              /\ Len(pubs'[n]) >= Len(pubs[n])
              /\ SubSeq(pubs'[n], 1, Len(pubs[n])) = pubs[n]
              /\ Len(started) = Cardinality(keys)
              /\ \A k \in keys :
                   Cardinality({j \in DOMAIN started : started[j].key = k}) = 1
              /\ \A j \in DOMAIN started :
                   /\ started[j].source = src
                   /\ started[j].key \in keys
                   /\ started[j].value = NilValue
                   /\ started[j].idx = applied'[n]
              /\ (src \notin DOMAIN storage[n]
                    => storage'[n] = storage[n] /\ pubs'[n] = pubs[n])]_vars

\* C9 witness: DELETE_SOURCE was applied to a source with two keys; the
\* source is gone and two goroutines belong to that log entry.
C9_Witness ==
  /\ applied["n1"] = 3
  /\ Entry(1) = command(operationSet, "colors", "primary", "red")
  /\ Entry(2) = command(operationSet, "colors", "secondary", "red")
  /\ Entry(3) = command(operationDeleteSource, "colors", "", NilValue)
  /\ "colors" \notin GetSources("n1")
  /\ Cardinality({j \in DOMAIN pubs["n1"] : pubs["n1"][j].idx = 3}) = 2

\* C10: applying SET(source, key, value) makes storage[source][key] equal to
\* value, leaves every other key as it was, and starts exactly one
\* publish(source, key, value), also for a value of length zero.
C10_Set ==
  [][\A n \in Nodes :
       Applies(n, operationSet)
       => LET c == Entry(applied'[n])
              started == Started(n)
          IN  /\ At(storage'[n], c.source, c.key) = <<"present", c.value>>
              /\ \A s \in Sources, k \in Keys :
                   <<s, k>> # <<c.source, c.key>>
                   => At(storage'[n], s, k) = At(storage[n], s, k)
              /\ DOMAIN storage'[n] = (DOMAIN storage[n]) \cup {c.source}
              /\ SubSeq(pubs'[n], 1, Len(pubs[n])) = pubs[n]
              /\ Len(started) = 1
              /\ started[1].source = c.source
              /\ started[1].key = c.key
              /\ started[1].value = c.value
              /\ started[1].idx = applied'[n]]_vars

\* C10 witness: a SET of a zero-length value overwrote "red" under a key of
\* a source that holds a second key; the key is still listed.
C10_Witness ==
  /\ applied["n1"] = 3
  /\ Entry(1) = command(operationSet, "colors", "primary", "red")
  /\ Entry(2) = command(operationSet, "colors", "secondary", "red")
  /\ Entry(3) = command(operationSet, "colors", "primary", "")
  /\ At(storage["n1"], "colors", "primary") = <<"present", "">>
  /\ At(storage["n1"], "colors", "secondary") = <<"present", "red">>
  /\ pubs["n1"][3].value = ""

\* The storage after applying the first j entries of the log.
RECURSIVE StateAfter(_)
StateAfter(j) ==
  IF j = 0 THEN EmptyMap ELSE applyStorage(StateAfter(j - 1), Entry(j))

\* What read rd returned.
Result(rd) == IF rd.op = "Get" THEN <<rd.value>> ELSE <<rd.out>>

\* What read rd returns from storage st when nothing runs next to it.
View(st, rd) ==
  CASE rd.op = "GetSources" -> <<DOMAIN st>>
    [] rd.op = "GetKeys" ->
         <<IF rd.source \in DOMAIN st THEN DOMAIN st[rd.source] ELSE {}>>
    [] OTHER ->
         <<IF rd.source \in DOMAIN st /\ rd.key \in DOMAIN st[rd.source]
           THEN st[rd.source][rd.key] ELSE NilValue>>

\* C11: what Get, GetKeys or GetSources returns is what it would return
\* from the storage after some prefix of the committed commands, also when
\* Apply, Snapshot or Restore ran during the call.
C11_ReadsSeePrefix ==
  \A n \in Nodes : \A r \in DOMAIN reads[n] :
    reads[n][r].pc = "returned"
    => \E j \in 0..Len(log) :
         Result(reads[n][r]) = View(StateAfter(j), reads[n][r])

\* C11 witness: a GetKeys on the follower returned the key of "colors"
\* although a Restore replaced the storage during its range loop, with an
\* image in which DELETE_SOURCE had removed "colors".
C11_Witness ==
  \E r \in DOMAIN reads["n2"] :
    /\ reads["n2"][r].pc = "returned"
    /\ reads["n2"][r].op = "GetKeys"
    /\ ~reads["n2"][r].live
    /\ reads["n2"][r].out = {"primary"}
    /\ Len(log) = 2
    /\ Entry(2).op = operationDeleteSource
    /\ \E i \in DOMAIN snapshots :
         "n2" \in snapshots[i].restoredOn /\ snapshots[i].index = 2

\* The Server calls that returned a response and no error.
Succeeded ==
  {c \in DOMAIN calls :
     calls[c].api = "rpc" /\ calls[c].pc = "returned" /\ ~calls[c].err}

\* Log entry j writes (source, key): a set or a delete of the key, or a
\* delete of the source.
Touches(j, source, key) ==
  /\ Entry(j).source = source
  /\ \/ Entry(j).op = operationDeleteSource
     \/ Entry(j).key = key

\* Call r is a GetValue of the key that call w set, issued after w returned
\* success.
ReadsAfterWrite(r, w) ==
  /\ r \in Succeeded
  /\ w \in Succeeded
  /\ calls[w].op = "SetValue"
  /\ calls[r].op = "GetValue"
  /\ w \in calls[r].after
  /\ calls[r].req.source = calls[w].req.source
  /\ calls[r].req.key = calls[w].req.key

\* C12: a GetValue(source, key) issued after SetValue(source, key, v) returned
\* success, through the leader or through a follower that proxies to it,
\* returns v unless a later entry of the log that writes (source, key) had been
\* committed and applied when the read was served.
C12_ReadYourWrites ==
  \A r \in DOMAIN calls : \A w \in DOMAIN calls :
    ReadsAfterWrite(r, w) =>
      \/ calls[r].resp.value = calls[w].req.value
      \/ \E j \in (calls[w].idx + 1)..calls[r].idx :
           Touches(j, calls[w].req.source, calls[w].req.key)

\* C12 witness: SetValue(colors, primary, red) sent to the follower was
\* proxied and returned success, and a GetValue issued afterwards through the
\* follower returned red.
C12_Witness ==
  \E r \in DOMAIN calls : \E w \in DOMAIN calls :
    /\ ReadsAfterWrite(r, w)
    /\ calls[w].proxied
    /\ calls[r].proxied
    /\ calls[w].req.value = "red"
    /\ calls[r].resp.value = "red"

\* C13: a GetValue, GetSources or GetKeys that returned a result was answered
\* from the storage of the leader: the node that received it is the leader, or
\* it proxied the call to the leader.
C13_ReadsLeaderOnly ==
  \A c \in Succeeded :
    calls[c].op \in {"GetValue", "GetSources", "GetKeys"} =>
      calls[c].node = leader \/ calls[c].proxied

\* C14: a write that a follower proxied and that succeeded returns the
\* response the leader's handler builds for the same request, field by field.
C14_ProxyResponseEqualsLeader ==
  \A c \in Succeeded :
    (calls[c].op \in Writes /\ calls[c].proxied) =>
      calls[c].resp = serverResponse(calls[c].op, calls[c].req, NilValue, {})

\* This step is the arrival of a SetValue, RemoveValue, RemoveSource or Join
\* on a node that is not the leader and has no proxy.
RefusedArrival ==
  /\ Len(calls') = Len(calls) + 1
  /\ calls'[Len(calls')].api = "rpc"
  /\ calls'[Len(calls')].op \in {"SetValue", "RemoveValue", "RemoveSource",
                                  "Join"}
  /\ calls'[Len(calls')].node # leader
  /\ ~proxy[calls'[Len(calls')].node]

\* C15: a SetValue, RemoveValue, RemoveSource or Join received by a node that
\* is not the leader and has no proxy returns an error in the same step, and
\* the step leaves the log, the storage of every node and the peer set as they
\* were.
C15_NoProxyRefuses ==
  [][RefusedArrival =>
       /\ calls'[Len(calls')].pc = "returned"
       /\ calls'[Len(calls')].err
       /\ log' = log
       /\ storage' = storage
       /\ applied' = applied
       /\ peers' = peers]_vars

\* C15 witness: the leader has a committed value and a peer, and the follower
\* n2, which has no proxy, has refused a SetValue.
C15_Witness ==
  /\ ~proxy["n2"]
  /\ storage["n1"] # EmptyMap
  /\ \E c \in DOMAIN calls :
       /\ calls[c].api = "rpc"
       /\ calls[c].node = "n2"
       /\ calls[c].op = "SetValue"
       /\ calls[c].pc = "returned"
       /\ calls[c].err

\* This step is a call of Store.Set, DeleteKey, DeleteSource or Join on a
\* store that is not the leader: a follower, or a store never opened.
NotLeaderCall ==
  /\ Len(calls') = Len(calls) + 1
  /\ calls'[Len(calls')].api = "store"
  /\ calls'[Len(calls')].op \in {"Set", "DeleteKey", "DeleteSource", "Join"}
  /\ \/ calls'[Len(calls')].node # leader
     \/ calls'[Len(calls')].node \notin Opened

\* C16: Store.Set, DeleteKey, DeleteSource and Join on a store that is not
\* the leader, a store never opened included, return an error, and the call
\* leaves the log, the storage of every node and the peer set as they were.
C16_StoreRefusesWhenNotLeader ==
  [][NotLeaderCall =>
       /\ calls'[Len(calls')].pc = "returned"
       /\ calls'[Len(calls')].err
       /\ log' = log
       /\ storage' = storage
       /\ applied' = applied
       /\ peers' = peers]_vars

\* C16 witness: the leader holds a value that its Set committed, and Set on
\* n3, whose store was never opened, has returned an error.
C16_Witness ==
  /\ storage["n1"] # EmptyMap
  /\ \E c \in DOMAIN calls :
       /\ calls[c].api = "store"
       /\ calls[c].node = "n3"
       /\ calls[c].op = "Set"
       /\ calls[c].pc = "returned"
       /\ calls[c].err

\* In this step node n restores from snapshot i.
Restores(n, i) ==
  /\ i \in DOMAIN snapshots
  /\ n \notin snapshots[i].restoredOn
  /\ n \in snapshots'[i].restoredOn

SubscriptionsOf(n, id) ==
  {<<s>> : s \in {x \in DOMAIN sourceSubs[n] : id \in sourceSubs[n][x]}}
    \cup UNION {{<<s, k>> : k \in {y \in DOMAIN keySubs[n][s] :
                                      id \in keySubs[n][s][y]}} :
                 s \in DOMAIN keySubs[n]}

\* The Updates sent on the streams of session id on node n.
SentTo(n, id) ==
  UNION {{listens[n][l].recv[j] : j \in DOMAIN listens[n][l].recv} :
           l \in {x \in DOMAIN listens[n] : listens[n][x].session = id}}

\* C18: a session whose only subscription is the key subscription
\* (source, key) has been sent Updates of that source and that key only.
\* No subscription is ever removed in SpecKeySubscriptions, so the session
\* never had another one.
C18_KeySubscriberOnlyItsKey ==
  \A id \in SessionIDs : \A s \in Sources : \A k \in Keys :
    SubscriptionsOf("n1", id) = {<<s, k>>} =>
      \A u \in SentTo("n1", id) : u.source = s /\ u.key = k

\* C18 witness: AA is subscribed to (colors, primary) only and has been sent
\* the Update of a SET of it, while a SET of (colors, secondary) was sent to
\* BB.
C18_Witness ==
  /\ SubscriptionsOf("n1", "AA") = {<<"colors", "primary">>}
  /\ \E u \in SentTo("n1", "AA") : u.key = "primary"
  /\ \E u \in SentTo("n1", "BB") : u.key = "secondary"

\* Entry i is a committed SET of source s that the leader has not applied
\* yet, and session id has a stream attached and is subscribed to s.
CommittedForSubscriber(i, id, s) ==
  /\ i \in DOMAIN log
  /\ Entry(i).op = operationSet
  /\ Entry(i).source = s
  /\ applied["n1"] < i
  /\ id \in DOMAIN sessions["n1"]
  /\ s \in DOMAIN sourceSubs["n1"]
  /\ id \in sourceSubs["n1"][s]

\* The Update of the SET of entry i has been sent on a stream of session id.
UpdateSent(i, id) ==
  \E u \in SentTo("n1", id) :
    /\ u.idx = i
    /\ u.source = Entry(i).source
    /\ u.key = Entry(i).key
    /\ u.value = Entry(i).value

\* C19: while session id has a stream attached and stays subscribed to
\* source s (no session unsubscribes or leaves in SpecSourceSubscriptions, and
\* every Send succeeds), every committed SET(s, k, v) is eventually followed
\* by the Update{s, k, v} on a stream of id; and a session whose only
\* subscription is the source s is sent no Update of another source.
C19_SourceSubscriberGetsEverySet ==
  /\ \A id \in SessionIDs : \A s \in Sources : \A i \in 1..MaxWrites :
       CommittedForSubscriber(i, id, s) ~> UpdateSent(i, id)
  /\ [](\A id \in SessionIDs : \A s \in Sources :
          SubscriptionsOf("n1", id) = {<<s>>} =>
            \A u \in SentTo("n1", id) : u.source = s)

\* C19 witness: AA, subscribed to colors only, has been sent the Update of a
\* SET of colors that was committed while it was subscribed, and a SET of
\* the source AA was published to BB.
C19_Witness ==
  /\ SubscriptionsOf("n1", "AA") = {<<"colors">>}
  /\ \E i \in DOMAIN log : Entry(i).source = "colors" /\ UpdateSent(i, "AA")
  /\ \E u \in SentTo("n1", "BB") : u.source = "AA"

\* Update j of stream l of node n was sent by the loop of publish named by
\* loop ("notifySource" or "notifyKey") for a log entry committed after the
\* subscription sub of the stream's session was removed.
SentAfterUnsubscribe(n, l, j, loop, sub) ==
  /\ listens[n][l].via[j] = loop
  /\ sub \in DOMAIN unsubAt[n]
  /\ listens[n][l].recv[j].idx > unsubAt[n][sub]

\* C20: once Unsubscribe(S, s) has returned, and until S subscribes to s
\* again, no Update of an entry committed afterwards is sent to S by the loop
\* over the source subscriptions of s; likewise for UnsubscribeKey(S, s, k) and
\* the loop over the key subscriptions of (s, k).
C20_NoUpdateAfterUnsubscribe ==
  \A l \in DOMAIN listens["n1"] : \A j \in DOMAIN listens["n1"][l].recv :
    LET id == listens["n1"][l].session
        u == listens["n1"][l].recv[j]
    IN  /\ ~SentAfterUnsubscribe("n1", l, j, "notifySource",
                                 <<id, u.source>>)
        /\ ~SentAfterUnsubscribe("n1", l, j, "notifyKey",
                                 <<id, u.source, u.key>>)

\* C20 witness: AA was subscribed to colors and was sent the Update of the
\* first SET; it has unsubscribed, a second SET was committed afterwards and
\* its publish has finished.
C20_Witness ==
  /\ <<"AA", "colors">> \in DOMAIN unsubAt["n1"]
  /\ unsubAt["n1"][<<"AA", "colors">>] = 1
  /\ \E u \in SentTo("n1", "AA") : u.idx = 1
  /\ \E g \in DOMAIN pubs["n1"] :
       pubs["n1"][g].idx = 2 /\ pubs["n1"][g].pc = "done"

\* Session id is subscribed to source s in subs.
InSource(subs, s, id) == s \in DOMAIN subs /\ id \in subs[s]

\* Session id is subscribed to (s, k) in subs.
InKey(subs, s, k, id) ==
  s \in DOMAIN subs /\ k \in DOMAIN subs[s] /\ id \in subs[s][k]

\* C21: on every reachable subscription index, for every session, source and
\* key, Subscribe twice gives the index that Subscribe once gives, Unsubscribe
\* twice the index that Unsubscribe once gives, Unsubscribe of a session that
\* is not subscribed returns no error and gives the index back unchanged; the
\* same for SubscribeKey and UnsubscribeKey.
C21_SubscriptionsIdempotent ==
  \A id \in SessionIDs : \A s \in Sources : \A k \in Keys :
    LET ss == sourceSubs["n1"]
        ks == keySubs["n1"]
    IN  /\ subscribe(subscribe(ss, s, id), s, id) = subscribe(ss, s, id)
        /\ unsubscribe(unsubscribe(ss, s, id), s, id) = unsubscribe(ss, s, id)
        /\ ~InSource(ss, s, id) => unsubscribe(ss, s, id) = ss
        /\ ~subscriptionError("Unsubscribe", id, s, "")
        /\ subscribeKey(subscribeKey(ks, s, k, id), s, k, id)
             = subscribeKey(ks, s, k, id)
        /\ unsubscribeKey(unsubscribeKey(ks, s, k, id), s, k, id)
             = unsubscribeKey(ks, s, k, id)
        /\ ~InKey(ks, s, k, id) => unsubscribeKey(ks, s, k, id) = ks
        /\ ~subscriptionError("UnsubscribeKey", id, s, k)

\* C21 witness: AA is subscribed to colors and to (colors, primary); BB, never
\* subscribed to colors, has called Unsubscribe(BB, colors) and
\* UnsubscribeKey(BB, AA, primary) on a source nobody subscribed to.
C21_Witness ==
  /\ InSource(sourceSubs["n1"], "colors", "AA")
  /\ InKey(keySubs["n1"], "colors", "primary", "AA")
  /\ sourceSubs["n1"]["colors"] = {"AA"}
  /\ <<"BB", "colors">> \in DOMAIN unsubAt["n1"]
  /\ <<"BB", "AA", "primary">> \in DOMAIN unsubAt["n1"]
  /\ "AA" \notin DOMAIN keySubs["n1"]

\* Session id has a Listen stream attached on n1.
Attached(id) ==
  id \in DOMAIN sessions["n1"] /\ sessions["n1"][id] # NoListener

\* C22: in SpecSubscribeFirst session AA subscribes to colors after Connect
\* and before Listen.  No publish ever records a send error, those that run
\* before the stream is attached included; and every SET of colors committed
\* while the stream is attached is eventually followed by its Update on the
\* stream of AA.
C22_SubscribeBeforeListen ==
  /\ [](\A g \in DOMAIN pubs["n1"] : pubs["n1"][g].errs = 0)
  /\ \A i \in 1..MaxWrites :
       (CommittedForSubscriber(i, "AA", "colors") /\ Attached("AA"))
         ~> UpdateSent(i, "AA")

\* C22 witness: the publish of the first SET finished with no error and sent
\* AA nothing, and the Update of the second SET was sent on the stream AA
\* attached after subscribing.
C22_Witness ==
  /\ Attached("AA")
  /\ InSource(sourceSubs["n1"], "colors", "AA")
  /\ \E g \in DOMAIN pubs["n1"] :
       /\ pubs["n1"][g].idx = 1
       /\ pubs["n1"][g].pc = "done"
       /\ pubs["n1"][g].errs = 0
  /\ ~UpdateSent(1, "AA")
  /\ UpdateSent(2, "AA")

\* Entry i is a committed SET of (s, k) that the leader has not applied yet,
\* and session id has a stream attached and is subscribed to the key.
CommittedForKeySubscriber(i, id, s, k) ==
  /\ i \in DOMAIN log
  /\ Entry(i).op = operationSet
  /\ Entry(i).source = s
  /\ Entry(i).key = k
  /\ applied["n1"] < i
  /\ Attached(id)
  /\ InKey(keySubs["n1"], s, k, id)

\* C23: in SpecSendFailure the Sends to AA fail once its client is gone, and
\* BB stays.  Every SET committed while BB is attached and subscribed to the
\* source (or to the key) is eventually followed by its Update on the stream
\* of BB, whether or not the Send to AA in the same loop failed.
C23_SendErrorDoesNotSuppress ==
  \A i \in 1..MaxWrites :
    /\ (CommittedForSubscriber(i, "BB", "colors") /\ Attached("BB"))
         ~> UpdateSent(i, "BB")
    /\ CommittedForKeySubscriber(i, "BB", "colors", "primary")
         ~> UpdateSent(i, "BB")

\* C23 witness: the publish of the first SET recorded a failed Send and has
\* finished, and its Update was sent to BB.
C23_Witness ==
  /\ \E g \in DOMAIN pubs["n1"] :
       /\ pubs["n1"][g].idx = 1
       /\ pubs["n1"][g].pc = "done"
       /\ pubs["n1"][g].errs > 0
  /\ UpdateSent(1, "BB")

\* In this step a Send of a publish goroutine of n1 fails.
SendFails ==
  \E g \in DOMAIN pubs["n1"] : pubs'["n1"][g].errs > pubs["n1"][g].errs

\* C24: a SetValue, RemoveValue or RemoveSource handled by the leader returns
\* no error, whatever the Sends of the publish it caused did; and a step in
\* which a Send fails leaves the session registry and both subscription indexes
\* as they were.
C24_SendFailureStaysLocal ==
  /\ [](\A c \in DOMAIN calls :
          (calls[c].api = "rpc" /\ calls[c].pc = "returned") =>
            ~calls[c].err)
  /\ [][SendFails =>
          /\ sessions' = sessions
          /\ sourceSubs' = sourceSubs
          /\ keySubs' = keySubs]_vars

\* C24 witness: the SetValue that wrote entry 1 has returned success, a Send
\* of the publish of entry 1 failed, and AA is still registered and
\* subscribed to colors.
C24_Witness ==
  /\ \E c \in Succeeded : calls[c].op = "SetValue" /\ calls[c].idx = 1
  /\ \E g \in DOMAIN pubs["n1"] :
       pubs["n1"][g].idx = 1 /\ pubs["n1"][g].errs > 0
  /\ "AA" \in DOMAIN sessions["n1"]
  /\ InSource(sourceSubs["n1"], "colors", "AA")

\* The Store.Join calls that ran AddPeer.
JoinsOnLeader ==
  {i \in DOMAIN calls :
     calls[i].api = "store" /\ calls[i].op = "Join" /\ IsLeader(calls[i].node)}

\* C25: Store.Join on the leader succeeds when AddPeer reports that the
\* address is a known peer, and the peer set is then what it was; every other
\* error of AddPeer is returned to the caller, and a Join that got no error
\* succeeds with the address in the peer set.
C25_JoinKnownPeer ==
  /\ [](\A i \in JoinsOnLeader :
          /\ calls[i].raftErr = ErrKnownPeer => ~calls[i].err
          /\ calls[i].raftErr \notin {"", ErrKnownPeer} => calls[i].err
          /\ calls[i].raftErr = "" =>
               ~calls[i].err /\ calls[i].req.address \in peers)
  /\ [][\A i \in DOMAIN calls' :
          (i \notin DOMAIN calls /\ calls'[i].raftErr # "") =>
            peers' = peers]_vars

\* C25 witness: an address was joined, a second Join of it got ErrKnownPeer
\* and succeeded, and a Join of another address failed with another error.
C25_Witness ==
  \E i, j, k \in JoinsOnLeader :
    /\ i < j
    /\ calls[i].raftErr = "" /\ calls[j].raftErr = ErrKnownPeer
    /\ calls[i].req.address = calls[j].req.address
    /\ ~calls[j].err
    /\ calls[k].raftErr = ErrEnqueueTimeout /\ calls[k].err
    /\ peers = {calls[i].req.address}

\* The sessions found in some set of sourceSubs or keySubs of node n.
SubscribedSessions(n) ==
  {id \in SessionIDs :
     InSourceSubs(sourceSubs[n], id) \/ InKeySubs(keySubs[n], id)}

\* C26: every session identifier found in sourceSubs or keySubs is a
\* registered session, because Subscribe, SubscribeKey, Unsubscribe and
\* UnsubscribeKey refuse an identifier that is not in the session registry.
C26_SubscribersAreRegistered ==
  \A n \in Nodes : SubscribedSessions(n) \subseteq DOMAIN sessions[n]

\* Entry i is a committed SET of source s that node n has not applied yet,
\* and session id has a stream attached on n and is subscribed to s there.
CommittedForSubscriberOn(n, i, id, s) ==
  /\ i \in DOMAIN log
  /\ Entry(i).op = operationSet
  /\ Entry(i).source = s
  /\ applied[n] < i
  /\ id \in DOMAIN sessions[n]
  /\ sessions[n][id] # NoListener
  /\ s \in DOMAIN sourceSubs[n]
  /\ id \in sourceSubs[n][s]

\* The Update of the SET of entry i has been sent on a stream of session id
\* on node n.
UpdateSentOn(n, i, id) ==
  \E u \in SentTo(n, id) :
    /\ u.idx = i
    /\ u.source = Entry(i).source
    /\ u.key = Entry(i).key
    /\ u.value = Entry(i).value

\* C27: a session that is listening and subscribed to colors on the follower
\* n2 eventually receives the Update of every SET of colors committed through
\* the leader n1: the write is published on each node that applies it.
C27_FollowerPublishes ==
  \A i \in 1..MaxWrites :
    CommittedForSubscriberOn("n2", i, "AA", "colors")
      ~> UpdateSentOn("n2", i, "AA")

\* C27 witness: AA, attached and subscribed on n2, has been sent the Update of
\* the first SET, which the leader n1 committed and published to nobody.
C27_Witness ==
  /\ "AA" \in SourceSubscribers("n2", "colors")
  /\ UpdateSentOn("n2", 1, "AA")
  /\ leader = "n1"
  /\ ~initialized["n1"]
  /\ \E g \in DOMAIN pubs["n1"] : pubs["n1"][g].idx = 1 /\ pubs["n1"][g].pc = "done"

\* This step is an iteration of a range loop of publish goroutine g of node n
\* in which notify calls stream.Listener.Send.
CallsSend(n, g) ==
  /\ g \in DOMAIN pubs[n]
  /\ pubs[n][g].pc \in {"notifySource", "notifyKey"}
  /\ pubs[n][g].todo # <<>>
  /\ notifyStream(n, Head(pubs[n][g].todo)) # NoListener
  /\ pubs'[n][g].todo = Tail(pubs[n][g].todo)

\* C28: whenever publish calls Send on a session's stream, the sending
\* goroutine holds neither sourceSubsMutex nor keySubsMutex nor sessionsMutex
\* nor the lock of the FSM storage.
C28_SendHoldsNoLock ==
  [][\A n \in Nodes : \A g \in DOMAIN pubs[n] :
       CallsSend(n, g) =>
         /\ sourceSubsMutex[n] # <<"publish", g>>
         /\ keySubsMutex[n] # <<"publish", g>>
         /\ sessionsMutex[n] # <<"publish", g>>
         /\ mu[n] # <<"publish", g>>]_vars

\* C29: every Connect call returns an identifier, also when the identifier
\* generateSessionID drew first is already registered: the function draws
\* again and does not block on sessionsMutex.
C29_ConnectReturns ==
  \A c \in 1..MaxConnect :
    (c \in DOMAIN connects["n1"]) ~> (c \in Returned("n1"))

\* The proxy of the node that received call c has connected to the leader
\* for it: the request is on its way to the leader's handler, or was served
\* by it.
ForwardedToLeader(c) == calls[c].proxied /\ calls[c].lst # 0

\* C30: a write or read request with an empty source or an empty key that a
\* non-leader node receives is never forwarded to the leader.
C30_InvalidNeverForwarded ==
  \A c \in Received :
    (~IsLeader(calls[c].node) /\ ~valid(calls[c].op, calls[c].req))
      => ~ForwardedToLeader(c)

Foreign(i) ==
  unmarshalError(log[i]) \/ unmarshal(log[i]).op \notin Operations

\* C32: applying a log entry whose operation is none of set, deletekey and
\* deleteSource, or whose bytes do not decode, leaves the storage unchanged
\* and starts no publish goroutine; and every committed entry, those after
\* such an entry included, is eventually applied on every node.
C32_UnknownEntryDiscarded ==
  /\ [][\A n \in Opened :
          (applied'[n] = applied[n] + 1 /\ Foreign(applied'[n])) =>
            /\ storage'[n] = storage[n]
            /\ pubs'[n] = pubs[n]]_vars
  /\ \A n \in Opened : \A i \in 1..MaxLog :
       (Len(log) >= i) ~> (applied[n] >= i)

\* C32 witness: the follower n2 has applied an undecodable entry, an entry
\* with an unknown operation and then a SET, which is in its storage; the
\* SET is the only entry that started a publish goroutine.
C32_Witness ==
  /\ Len(log) = 3
  /\ applied["n2"] = 3
  /\ unmarshalError(log[1])
  /\ ~unmarshalError(log[2]) /\ unmarshal(log[2]).op \notin Operations
  /\ ~Foreign(3) /\ Entry(3).op = operationSet
  /\ At(storage["n2"], "colors", "primary") = <<"present", "red">>
  /\ Len(pubs["n2"]) = 1

\* In this step publish goroutine g of node n reads s.sessions in notify.
LooksUp(n, g) ==
  /\ g \in DOMAIN pubs[n]
  /\ pubs[n][g].pc \in {"notifySource", "notifyKey"}
  /\ pubs[n][g].todo # <<>>
  /\ pubs'[n][g] # pubs[n][g]

\* C33: the lookup of the session registry by the publisher is made under
\* sessionsMutex, so it never runs while another goroutine is inside the
\* critical section that adds a session to the registry.
C33_LookupExcludesWriters ==
  [][\A n \in Nodes : \A g \in DOMAIN pubs[n] :
       LooksUp(n, g) => ~RegistryWriter(n)]_vars

\* Publish goroutine g of n1 is inside a Send that does not complete: the
\* client of the stream it sends on has stopped reading.
SendSuspended(g) ==
  /\ pubs["n1"][g].pc \in {"notifySource", "notifyKey"}
  /\ pubs["n1"][g].todo # <<>>
  /\ notifyStream("n1", Head(pubs["n1"][g].todo)) # NoListener
  /\ listens["n1"][notifyStream("n1", Head(pubs["n1"][g].todo))].stalled

C35_UpdateAfterVisible ==
  \A n \in Nodes : \A l \in DOMAIN listens[n] :
    \A x \in DOMAIN listens[n][l].recv :
      LET u == listens[n][l].recv[x]
      IN  Entry(u.idx).op = operationSet =>
            /\ applied[n] >= u.idx
            /\ \/ Get(n, u.source, u.key) = u.value
               \/ \E j \in (u.idx + 1)..applied[n] :
                    Touches(j, u.source, u.key)

\* C35 witness: AA was sent the Update of SET(colors, primary, red) while the
\* value read back was red and no later command had been applied.
C35_Witness ==
  /\ applied["n1"] = 1
  /\ Entry(1).op = operationSet /\ Entry(1).value = "red"
  /\ UpdateSent(1, "AA")
  /\ Get("n1", "colors", "primary") = "red"
  /\ Len(log) = 2

\* The sequence handlers without its element at position i.
WithoutAt(handlers, i) ==
  SubSeq(handlers, 1, i - 1) \o SubSeq(handlers, i + 1, Len(handlers))

\* The step is a call of Unsubscribe or UnsubscribeKey on the client.
ClientUnsubscribes ==
  /\ client' # client
  /\ client'.last.op \in {"Unsubscribe", "UnsubscribeKey"}

\* The handlers the client holds for what the call of the step names, before
\* and after the step.
HandlersIn(c, last) ==
  IF last.op = "Unsubscribe"
  THEN IF last.source \in DOMAIN c.sourceHandlers
       THEN c.sourceHandlers[last.source] ELSE <<>>
  ELSE IF /\ last.source \in DOMAIN c.keyHandlers
          /\ last.key \in DOMAIN c.keyHandlers[last.source]
       THEN c.keyHandlers[last.source][last.key] ELSE <<>>

HandlersBefore == HandlersIn(client, client'.last)

HandlersAfter == HandlersIn(client', client'.last)

\* C36: when the client holds two or more handlers for a source (or a source
\* and key) and removes one of them, exactly that one registration goes, the
\* others stay in their order, no unsubscribe RPC is made and the server's
\* subscriptions are untouched; an unsubscribe RPC is made only by a call
\* that leaves no handler registered.
C36_LastHandlerUnsubscribes ==
  [][ClientUnsubscribes =>
       /\ (Len(HandlersBefore) >= 2
             /\ \E i \in DOMAIN HandlersBefore :
                  HandlersBefore[i] = client'.last.handler)
          => /\ \E i \in DOMAIN HandlersBefore :
                  /\ HandlersBefore[i] = client'.last.handler
                  /\ HandlersAfter = WithoutAt(HandlersBefore, i)
             /\ ~client'.last.rpc
             /\ sourceSubs' = sourceSubs
             /\ keySubs' = keySubs
       /\ client'.last.rpc => HandlersAfter = <<>>
       /\ (Len(HandlersBefore) = 1
             /\ HandlersBefore[1] = client'.last.handler)
          => client'.last.rpc]_vars

\* C36 witness: the client removed h1 from two handlers of "colors" and
\* kept the other without calling the server; session AA is still
\* subscribed to "colors" on n1, where its stream is attached.
C36_Witness ==
  /\ client.last = clientCall("Unsubscribe", "colors", "", "h1", FALSE)
  /\ sourceHandlersOf("colors") = <<"h2">>
  /\ "colors" \in DOMAIN sourceSubs["n1"]
  /\ "AA" \in sourceSubs["n1"]["colors"]
  /\ "AA" \in DOMAIN sessions["n1"]

\* C37: a request is forwarded at most once: no call has been handed to a
\* Proxy by the node a Proxy delivered it to.
C37_OneHop ==
  \A c \in DOMAIN calls :
    /\ Len(calls[c].path) <= 1
    /\ calls[c].pc = "dial" => calls[c].path = <<>>

\* C38: every Listen call that waits on its stream's context, the context
\* still open, finds its session in the registry with its own stream.
C38_OpenListenStaysRegistered ==
  \A l \in DOMAIN listens["n1"] :
    (listens["n1"][l].pc = "waiting" /\ listens["n1"][l].ctx = "open") =>
      /\ listens["n1"][l].session \in DOMAIN sessions["n1"]
      /\ sessions["n1"][listens["n1"][l].session] = l

\* The step is a section of removeSession run by Listen call l of node n.
RemovesSession(n, l) ==
  /\ l \in DOMAIN listens[n]
  /\ listens[n][l].pc \in {"removeSource", "removeKey", "removeSession"}
  /\ listens'[n][l].pc # listens[n][l].pc

\* The sources session id is subscribed to in the map subs.
SourcesOf(subs, id) == {s \in DOMAIN subs : id \in subs[s]}

\* The (source, key) pairs session id is subscribed to in the map subs.
SourceKeysOf(subs, id) ==
  {p \in (DOMAIN subs) \X Keys :
     p[2] \in DOMAIN subs[p[1]] /\ id \in subs[p[1]][p[2]]}

\* C39: removeSession for session S leaves the subscriptions of every other
\* session as they were, in sourceSubs and in keySubs.
C39_RemoveSessionFrame ==
  [][\A l \in DOMAIN listens["n1"] :
       RemovesSession("n1", l) =>
         \A id \in SessionIDs \ {listens["n1"][l].session} :
           /\ SourcesOf(sourceSubs'["n1"], id)
                = SourcesOf(sourceSubs["n1"], id)
           /\ SourceKeysOf(keySubs'["n1"], id)
                = SourceKeysOf(keySubs["n1"], id)]_vars

\* The requests that hold the lock of sourceSubs, as they see it.
InSourceSubsSection ==
  {id \in SessionIDs : boot.reqs[id].pc \in {"defer", "write"}}

\* C40: with concurrent first requests, initialize allocates each of the
\* three mutexes once, no handler locks a mutex field that is still nil, no
\* deferred Unlock finds its mutex unlocked, and at most one handler is
\* inside the section that writes sourceSubs.
C40_InitializeOnce ==
  /\ boot.made <= 3
  /\ \A id \in SessionIDs : boot.reqs[id].pc \notin {"panic", "fatal"}
  /\ Cardinality(InSourceSubsSection) <= 1

====
